---- MODULE Spec2Model ----
(***************************************************************************)
(* Course progress, quiz grading, assignments and live classes of the     *)
(* learning platform backend.                                              *)
(*                                                                         *)
(* The state is one Course document with one Quiz, one Assignment and one *)
(* LiveClass document of that course, as mongoose stores them, the        *)
(* enrolledCourses list of every student, the server clock, the last HTTP *)
(* response and the reads of requests that are between their read and     *)
(* their save.  Every exported request handler is one action; its early   *)
(* returns are the IF branches, in the order of the code.  Notifications  *)
(* are write-only for these handlers and are left out, as are the         *)
(* timestamps no handler writes after the creation of the document        *)
(* (enrolledAt, createdAt).                                                *)
(***************************************************************************)
EXTENDS Integers, Sequences, FiniteSets, TLC

VARIABLES course, quiz, enrolledCourses, now, resp, pending, assignment,
          liveClass

vars == <<course, quiz, enrolledCourses, now, resp, pending, assignment,
          liveClass>>

(***************************************************************************)
(* Bounds of the model.                                                    *)
(***************************************************************************)
MaxQuestions == 2
MaxPoints == 2
MaxAnswers == 2
MaxAttempts == 2
MaxMaterials == 2
MaxPending == 2
MaxItems == 2
MaxTime == 3

(***************************************************************************)
(* Users.  req.user.id and req.user.role come from the protect middleware.*)
(***************************************************************************)
Students == {"s1", "s2"}
Instructor == "t1"
Admin == "a1"
Users == Students \cup {Instructor, Admin}

\* a teacher who is not the instructor of the course
OtherTeacher == "t2"

Role(u) == IF u \in Students THEN "student"
           ELSE IF u = Admin THEN "admin" ELSE "teacher"

\* module.order values of this model
ModuleOrders == {1}

QuizId == "q1"
CourseId == "c1"

\* JavaScript values that have no TLA+ counterpart of the same type.
Undefined == -1
NaN == -2
Null == -3
NoLesson == ""

(***************************************************************************)
(* Generic array helpers (Array.prototype.includes / findIndex / filter). *)
(***************************************************************************)
Includes(s, x) == \E i \in DOMAIN s : s[i] = x

RECURSIVE Without(_, _)
Without(s, x) ==
    IF s = <<>> THEN <<>>
    ELSE IF Head(s) # x THEN <<Head(s)>> \o Without(Tail(s), x)
    ELSE Without(Tail(s), x)

\* Math.round(num / den * 100 ...) on non-negative operands: floor(x + 0.5).
MathRound(num, den) == (2 * num + den) \div (2 * den)

\* material._id.toString(): the hex string of the ObjectId numbered k.
ObjectIdToString(k) == "m" \o ToString(k)

LessonIds == {ObjectIdToString(k) : k \in 1..2}

(***************************************************************************)
(* Course model.                                                           *)
(***************************************************************************)
\* index (1-based, 0 for -1) of the first enrollment record of a student
StudentIndex(c, studentId) ==
    IF \E i \in DOMAIN c.students : c.students[i].student = studentId
    THEN CHOOSE i \in DOMAIN c.students :
            /\ c.students[i].student = studentId
            /\ \A j \in 1..(i - 1) : c.students[j].student # studentId
    ELSE 0

\* a lookup that takes any enrollment record for an approved one
ApprovedIndexAnyStatus(c, studentId) == StudentIndex(c, studentId)

\* index of the first approved enrollment record of a student
ApprovedIndex(c, studentId) ==
    IF \E i \in DOMAIN c.students :
          /\ c.students[i].student = studentId
          /\ c.students[i].enrollmentStatus = "approved"
    THEN CHOOSE i \in DOMAIN c.students :
            /\ c.students[i].student = studentId
            /\ c.students[i].enrollmentStatus = "approved"
            /\ \A j \in 1..(i - 1) :
                  ~(/\ c.students[j].student = studentId
                    /\ c.students[j].enrollmentStatus = "approved")
    ELSE 0

\* a check that is content with a pending or rejected enrollment
IsEnrolledAnyStatus(c, u) == StudentIndex(c, u) # 0

\* startQuizAttempt: course.students.some(approved enrollment of the user)
IsEnrolled(c, u) == ApprovedIndex(c, u) # 0

\* a count that takes every completed material for a completed required item
RECURSIVE CountMaterialsAnyCompleted(_, _)
CountMaterialsAnyCompleted(materials, completedLessons) ==
    IF materials = <<>> THEN <<0, 0>>
    ELSE LET material == Head(materials)
             rest == CountMaterialsAnyCompleted(Tail(materials),
                                                completedLessons)
         IN  <<rest[1] + (IF material.isRequired THEN 1 ELSE 0),
               rest[2] + (IF Includes(completedLessons,
                                      ObjectIdToString(material.id))
                          THEN 1 ELSE 0)>>

\* module.materials.forEach: <<required, required and completed>>
RECURSIVE CountMaterials(_, _)
CountMaterials(materials, completedLessons) ==
    IF materials = <<>> THEN <<0, 0>>
    ELSE LET material == Head(materials)
             rest == CountMaterials(Tail(materials), completedLessons)
         IN  IF material.isRequired
             THEN <<rest[1] + 1,
                    rest[2] + (IF Includes(completedLessons,
                                           ObjectIdToString(material.id))
                               THEN 1 ELSE 0)>>
             ELSE rest

\* this.modules.forEach
RECURSIVE CountModules(_, _)
CountModules(modules, completedLessons) ==
    IF modules = <<>> THEN <<0, 0>>
    ELSE LET here == CountMaterials(Head(modules).materials, completedLessons)
             rest == CountModules(Tail(modules), completedLessons)
         IN  <<here[1] + rest[1], here[2] + rest[2]>>

\* quizScores.find(score => score.quizId === quiz._id): first entry or none
QuizScoreIndex(quizScores, quizId) ==
    IF \E i \in DOMAIN quizScores : quizScores[i].quizId = quizId
    THEN CHOOSE i \in DOMAIN quizScores :
            /\ quizScores[i].quizId = quizId
            /\ \A j \in 1..(i - 1) : quizScores[j].quizId # quizId
    ELSE 0

\* a count that takes a quiz as passed only above its passing score
RECURSIVE CountQuizzesAbove(_, _)
CountQuizzesAbove(quizzes, quizScores) ==
    IF quizzes = <<>> THEN <<0, 0>>
    ELSE LET q == Head(quizzes)
             rest == CountQuizzesAbove(Tail(quizzes), quizScores)
             k == QuizScoreIndex(quizScores, q.id)
         IN  <<rest[1] + 1,
               rest[2] + (IF k # 0 /\ quizScores[k].score > q.passingScore
                          THEN 1 ELSE 0)>>

\* this.quizzes.forEach
RECURSIVE CountQuizzes(_, _)
CountQuizzes(quizzes, quizScores) ==
    IF quizzes = <<>> THEN <<0, 0>>
    ELSE LET q == Head(quizzes)
             rest == CountQuizzes(Tail(quizzes), quizScores)
             k == QuizScoreIndex(quizScores, q.id)
         IN  <<rest[1] + 1,
               rest[2] + (IF k # 0 /\ quizScores[k].score >= q.passingScore
                          THEN 1 ELSE 0)>>

\* a percentage that takes every completed module for one more required
\* item that is completed
ProgressPercentageWithModules(c, progress) ==
    LET m == CountModules(c.modules, progress.completedLessons)
        q == CountQuizzes(c.quizzes, progress.quizScores)
        totalRequiredItems == m[1] + q[1] + Len(progress.completedModules)
        completedItems == m[2] + q[2] + Len(progress.completedModules)
    IN  IF totalRequiredItems > 0
        THEN MathRound(100 * completedItems, totalRequiredItems)
        ELSE 0

\* the percentage calculateStudentProgress computes for one progress record
ProgressPercentage(c, progress) ==
    LET m == CountModules(c.modules, progress.completedLessons)
        q == CountQuizzes(c.quizzes, progress.quizScores)
        totalRequiredItems == m[1] + q[1]
        completedItems == m[2] + q[2]
    IN  IF totalRequiredItems > 0
        THEN MathRound(100 * completedItems, totalRequiredItems)
        ELSE 0

\* courseSchema.methods.calculateStudentProgress: the course after the call
\* and the percentage returned
CalculateStudentProgress(c, studentId) ==
    LET studentIndex == StudentIndex(c, studentId)
    IN  IF studentIndex = 0 THEN [course |-> c, percentage |-> 0]
        ELSE LET percentage ==
                     ProgressPercentage(c, c.students[studentIndex].progress)
             IN  [course |->
                      [c EXCEPT !.students[studentIndex].progress
                                   .completionPercentage = percentage],
                  percentage |-> percentage]

(***************************************************************************)
(* Quiz model.                                                             *)
(***************************************************************************)
\* quiz.questions.reduce((sum, q) => sum + q.points, 0)
RECURSIVE SumPoints(_)
SumPoints(questions) ==
    IF questions = <<>> THEN 0
    ELSE Head(questions).points + SumPoints(Tail(questions))

\* attempts.findIndex(a => a.student === id && !a.completedAt), 0 for -1
IncompleteIndex(attempts, u) ==
    IF \E i \in DOMAIN attempts :
          attempts[i].student = u /\ attempts[i].completedAt = Undefined
    THEN CHOOSE i \in DOMAIN attempts :
            /\ attempts[i].student = u /\ attempts[i].completedAt = Undefined
            /\ \A j \in 1..(i - 1) :
                  ~(attempts[j].student = u /\ attempts[j].completedAt = Undefined)
    ELSE 0

\* attempts.find(a => a.student === id && a.completedAt), 0 for undefined
CompletedIndex(attempts, u) ==
    IF \E i \in DOMAIN attempts :
          attempts[i].student = u /\ attempts[i].completedAt # Undefined
    THEN CHOOSE i \in DOMAIN attempts :
            /\ attempts[i].student = u /\ attempts[i].completedAt # Undefined
            /\ \A j \in 1..(i - 1) :
                  ~(attempts[j].student = u /\ attempts[j].completedAt # Undefined)
    ELSE 0

\* attempts.find(a => a.student === id), 0 for undefined
FirstAttemptIndex(attempts, u) ==
    IF \E i \in DOMAIN attempts : attempts[i].student = u
    THEN CHOOSE i \in DOMAIN attempts :
            /\ attempts[i].student = u
            /\ \A j \in 1..(i - 1) : attempts[j].student # u
    ELSE 0

\* a lookup that takes a completed attempt for the one to resume
ExistingAttemptCompleted(attempts, u) == CompletedIndex(attempts, u)

\* startQuizAttempt: the student's incomplete attempt, if any
ExistingAttempt(attempts, u) == IncompleteIndex(attempts, u)

\* a lookup that does not look at the student
ActiveAttemptOfAnyone(attempts, u) ==
    IF \E i \in DOMAIN attempts : attempts[i].completedAt = Undefined
    THEN CHOOSE i \in DOMAIN attempts :
            /\ attempts[i].completedAt = Undefined
            /\ \A j \in 1..(i - 1) : attempts[j].completedAt # Undefined
    ELSE 0

\* a lookup that does not look at completedAt
ActiveAttemptAnyState(attempts, u) == FirstAttemptIndex(attempts, u)

\* submitQuizAttempt: the attempt the submission completes, if any
ActiveAttempt(attempts, u) == IncompleteIndex(attempts, u)

\* a grading that awards one point for every correct answer
GradeAnswerOnePoint(question, answer, index) ==
    LET isCorrect == (answer = question.correctAnswer)
    IN  [questionIndex |-> index,
         givenAnswer |-> answer,
         isCorrect |-> isCorrect,
         pointsEarned |-> IF isCorrect THEN 1 ELSE 0]

\* one iteration of answers.forEach((answer, index) => ...); index is 0-based
GradeAnswer(question, answer, index) ==
    LET isCorrect == (answer = question.correctAnswer)
    IN  [questionIndex |-> index,
         givenAnswer |-> answer,
         isCorrect |-> isCorrect,
         pointsEarned |-> IF isCorrect THEN question.points ELSE 0]

\* gradedAnswers after the whole forEach
GradedAnswers(questions, answers) ==
    [i \in DOMAIN answers |-> GradeAnswer(questions[i], answers[i], i - 1)]

\* totalScore after the whole forEach
RECURSIVE TotalScore(_)
TotalScore(gradedAnswers) ==
    IF gradedAnswers = <<>> THEN 0
    ELSE Head(gradedAnswers).pointsEarned + TotalScore(Tail(gradedAnswers))

\* quiz.questions[index] is undefined for an index past the last question,
\* and reading question.correctAnswer then throws a TypeError
GradingThrows(questions, answers) ==
    \E i \in DOMAIN answers : i \notin DOMAIN questions

\* a pass test that takes 0 / 0 for 0
PassedZeroOfZero(totalScore, maxScore, passingScore) ==
    IF maxScore = 0 THEN 0 >= passingScore
    ELSE 100 * totalScore >= passingScore * maxScore

\* (totalScore / maxScore) * 100 >= quiz.passingScore; 0 / 0 is NaN and every
\* comparison with NaN is false
Passed(totalScore, maxScore, passingScore) ==
    IF maxScore = 0 THEN FALSE
    ELSE 100 * totalScore >= passingScore * maxScore

\* Math.round((totalScore / maxScore) * 100)
Percentage(totalScore, maxScore) ==
    IF maxScore = 0 THEN NaN ELSE MathRound(100 * totalScore, maxScore)

\* a quiz as a response shows it; hide: correctAnswer = undefined everywhere
QuizView(q, hide) ==
    [q EXCEPT !.questions =
        [i \in DOMAIN q.questions |->
            IF hide THEN [q.questions[i] EXCEPT !.correctAnswer = Undefined]
            ELSE q.questions[i]]]

\* res.status(status).json(...)
Response(op, user, req, status, data) ==
    [op |-> op, user |-> user, req |-> req, status |-> status, data |-> data]

NoData == [none |-> TRUE]

(***************************************************************************)
(* Documents as the create handlers store them.                            *)
(***************************************************************************)
RECURSIVE SeqsUpTo(_, _)
SeqsUpTo(S, n) ==
    IF n = 0 THEN {<<>>}
    ELSE LET shorter == SeqsUpTo(S, n - 1)
         IN  shorter \cup {Append(s, x) : s \in shorter, x \in S}

\* a question of quizSchema: an option index as the key, points
Questions == [correctAnswer : {0, 1}, points : 1..MaxPoints]

\* the quiz documents createQuiz can store: Quiz.create({...req.body, course})
QuizDocuments(activeFlags, passingScores, questionLists) ==
    [id : {QuizId},
     course : {CourseId},
     isActive : activeFlags,
     passingScore : passingScores,
     questions : questionLists,
     attempts : {<<>>}]

\* the course documents createCourse can store: Course.create(req.body)
CourseDocuments(statuses, approvalFlags, quizLists) ==
    [status : statuses,
     enrollmentRequiresApproval : approvalFlags,
     instructor : {Instructor},
     students : {<<>>},
     modules : {<<>>},
     quizzes : quizLists]

\* the assignment documents createAssignment can store; points is the
\* maximum score
AssignmentDocuments(dueDates) ==
    [dueDate : dueDates, points : {MaxPoints}, submissions : {<<>>}]

\* the live class documents scheduleZoomLiveClass and
\* scheduleGoogleMeetLiveClass can store; instructor is the user who
\* scheduled the class
LiveClassDocuments(instructors) ==
    [instructor : instructors, status : {"scheduled"}, attendees : {<<>>}]

\* submissions.grade of a submission that was not graded (score: null)
NoGrade == [score |-> Null, gradedBy |-> "none", gradedAt |-> Undefined]

\* req.body.answers: option indexes
AnswerLists == SeqsUpTo({0, 1}, MaxAnswers)

\* course.quizzes as sent to createCourse: none, or the quiz of this model
\* with the points it takes to count as passed
CourseQuizLists == {<<>>, <<[id |-> QuizId, passingScore |-> 1]>>}

\* the entry enrollCourse pushes at the given time (lastAccessedAt by schema
\* default, Date.now)
NewEnrollment(u, enrollmentStatus, time) ==
    [student |-> u,
     enrollmentStatus |-> enrollmentStatus,
     progress |-> [completedModules |-> <<>>,
                   completedLessons |-> <<>>,
                   quizScores |-> <<>>,
                   completionPercentage |-> 0,
                   lastAccessedAt |-> time]]

\* the attempt startQuizAttempt pushes (passed and timeSpent by schema default)
NewAttempt(u, questions, startedAt) ==
    [student |-> u,
     score |-> 0,
     maxScore |-> SumPoints(questions),
     passed |-> FALSE,
     answers |-> <<>>,
     startedAt |-> startedAt,
     completedAt |-> Undefined,
     timeSpent |-> 0]

NoResponse == Response("none", "none", NoData, 0, NoData)

\* Quiz.findById(...) of a quiz that was deleted: null
NoQuiz == [id |-> "none"]

(***************************************************************************)
(* Course handlers.                                                        *)
(***************************************************************************)
\* an enrollment status that never waits for approval
InitialEnrollmentStatusApproved(c) == "approved"

\* enrollCourse: the status of the new enrollment
InitialEnrollmentStatus(c) ==
    IF c.enrollmentRequiresApproval THEN "pending" ELSE "approved"

\* a test that is content with a record that is not approved
AlreadyEnrolledApproved(c, u) == ApprovedIndex(c, u) # 0

\* enrollCourse: course.students.some(a record of the user, of any status)
AlreadyEnrolled(c, u) ==
    \E i \in DOMAIN c.students : c.students[i].student = u

\* POST /api/courses/:id/enroll (students)
EnrollCourse(u) ==
    /\ UNCHANGED <<quiz, now, pending, assignment, liveClass>>
    /\ IF course.status # "published"
       THEN /\ resp' = Response("enrollCourse", u, NoData, 400, NoData)
            /\ UNCHANGED <<course, enrolledCourses>>
       ELSE IF AlreadyEnrolled(course, u)
       THEN /\ resp' = Response("enrollCourse", u, NoData, 400, NoData)
            /\ UNCHANGED <<course, enrolledCourses>>
       ELSE LET enrollmentStatus == InitialEnrollmentStatus(course)
            IN  /\ course' = [course EXCEPT !.students =
                                 Append(@, NewEnrollment(u, enrollmentStatus,
                                                         now))]
                /\ enrolledCourses' =
                       IF enrollmentStatus = "approved"
                       THEN [enrolledCourses EXCEPT ![u] = Append(@, CourseId)]
                       ELSE enrolledCourses
                /\ resp' = Response("enrollCourse", u, NoData, 200,
                                    [enrollmentStatus |-> enrollmentStatus])

\* a lookup that takes any enrollment record for a pending one
PendingIndexAnyStatus(c, studentId) == StudentIndex(c, studentId)

\* index of the first pending enrollment record of a student, 0 for -1
PendingIndex(c, studentId) ==
    IF \E i \in DOMAIN c.students :
          /\ c.students[i].student = studentId
          /\ c.students[i].enrollmentStatus = "pending"
    THEN CHOOSE i \in DOMAIN c.students :
            /\ c.students[i].student = studentId
            /\ c.students[i].enrollmentStatus = "pending"
            /\ \A j \in 1..(i - 1) :
                  ~(/\ c.students[j].student = studentId
                    /\ c.students[j].enrollmentStatus = "pending")
    ELSE 0

\* PUT /api/courses/:id/enrollment/:studentId (teachers, admins)
UpdateEnrollmentStatus(u, studentId, status) ==
    LET req == [studentId |-> studentId, status |-> status]
        studentIndex == PendingIndex(course, studentId)
    IN  /\ UNCHANGED <<quiz, now, pending, assignment, liveClass>>
        /\ IF status \notin {"approved", "rejected"}
           THEN /\ resp' = Response("updateEnrollmentStatus", u, req, 400, NoData)
                /\ UNCHANGED <<course, enrolledCourses>>
           ELSE IF course.instructor # u /\ Role(u) # "admin"
           THEN /\ resp' = Response("updateEnrollmentStatus", u, req, 403, NoData)
                /\ UNCHANGED <<course, enrolledCourses>>
           ELSE IF studentIndex = 0
           THEN /\ resp' = Response("updateEnrollmentStatus", u, req, 404, NoData)
                /\ UNCHANGED <<course, enrolledCourses>>
           ELSE /\ course' = [course EXCEPT
                                 !.students[studentIndex].enrollmentStatus = status]
                /\ enrolledCourses' =
                       IF status = "approved"
                       THEN [enrolledCourses EXCEPT ![studentId] = Append(@, CourseId)]
                       ELSE enrolledCourses
                /\ resp' = Response("updateEnrollmentStatus", u, req, 200, NoData)

\* number of materials of the course: the next ObjectId is one more
RECURSIVE MaterialCount(_)
MaterialCount(modules) ==
    IF modules = <<>> THEN 0
    ELSE Len(Head(modules).materials) + MaterialCount(Tail(modules))

\* course.modules.find(m => m.order === moduleIndex), 0 for undefined
ModuleIndexOf(modules, moduleIndex) ==
    IF \E i \in DOMAIN modules : modules[i].order = moduleIndex
    THEN CHOOSE i \in DOMAIN modules :
            /\ modules[i].order = moduleIndex
            /\ \A j \in 1..(i - 1) : modules[j].order # moduleIndex
    ELSE 0

\* req.body.isRequired of addCourseMaterial
IsRequiredInputs == {"undefined", "true", "false"}

\* POST /api/courses/:id/materials (teachers, admins)
AddCourseMaterial(u, moduleIndex, isRequired) ==
    LET req == [moduleIndex |-> moduleIndex, isRequired |-> isRequired]
        withModule ==
            IF ModuleIndexOf(course.modules, moduleIndex) = 0
            THEN Append(course.modules,
                        [order |-> moduleIndex, materials |-> <<>>])
            ELSE course.modules
        k == ModuleIndexOf(withModule, moduleIndex)
        material == [id |-> MaterialCount(course.modules) + 1,
                     isRequired |-> IF isRequired # "undefined"
                                    THEN isRequired = "true" ELSE TRUE]
    IN  /\ MaterialCount(course.modules) < MaxMaterials
        /\ UNCHANGED <<quiz, enrolledCourses, now, pending, assignment, liveClass>>
        /\ IF course.instructor # u /\ Role(u) # "admin"
           THEN /\ resp' = Response("addCourseMaterial", u, req, 403, NoData)
                /\ UNCHANGED course
           ELSE /\ course' = [course EXCEPT !.modules =
                                 [withModule EXCEPT ![k].materials =
                                     Append(@, material)]]
                /\ resp' = Response("addCourseMaterial", u, req, 200, NoData)

\* a toggle that pushes without looking for the identifier
ToggleLessonPush(completedLessons, lessonId, completed) ==
    IF lessonId # NoLesson
    THEN IF completed
         THEN Append(completedLessons, lessonId)
         ELSE Without(completedLessons, lessonId)
    ELSE completedLessons

\* "Update completed lessons": completedLessons after the toggle
ToggleLesson(completedLessons, lessonId, completed) ==
    IF lessonId # NoLesson
    THEN IF completed /\ ~Includes(completedLessons, lessonId)
         THEN Append(completedLessons, lessonId)
         ELSE IF ~completed
         THEN Without(completedLessons, lessonId)
         ELSE completedLessons
    ELSE completedLessons

\* "Update completed modules": completedModules after the toggle
ToggleModule(completedModules, moduleIndex, completed) ==
    IF moduleIndex # Undefined
    THEN IF completed /\ ~Includes(completedModules, moduleIndex)
         THEN Append(completedModules, moduleIndex)
         ELSE IF ~completed
         THEN Without(completedModules, moduleIndex)
         ELSE completedModules
    ELSE completedModules

\* PUT /api/courses/:id/progress (students)
UpdateCourseProgress(u, lessonId, moduleIndex, completed) ==
    LET req == [lessonId |-> lessonId, moduleIndex |-> moduleIndex,
                completed |-> completed]
        studentIndex == ApprovedIndex(course, u)
        progress == course.students[studentIndex].progress
        completedLessons ==
            ToggleLesson(progress.completedLessons, lessonId, completed)
        completedModules ==
            ToggleModule(progress.completedModules, moduleIndex, completed)
        updated == [course EXCEPT
                       !.students[studentIndex].progress.completedLessons =
                           completedLessons,
                       !.students[studentIndex].progress.completedModules =
                           completedModules,
                       !.students[studentIndex].progress.lastAccessedAt = now]
        saved == CalculateStudentProgress(updated, u).course
    IN  /\ UNCHANGED <<quiz, enrolledCourses, now, pending, assignment, liveClass>>
        /\ IF studentIndex = 0
           THEN /\ resp' = Response("updateCourseProgress", u, req, 403, NoData)
                /\ UNCHANGED course
           ELSE /\ course' = saved
                /\ resp' = Response("updateCourseProgress", u, req, 200,
                                    saved.students[studentIndex].progress)

(***************************************************************************)
(* Assignment handlers.                                                    *)
(***************************************************************************)
\* a lateness test that takes the due date itself for late
SubmissionStatusFromDueDate(time, dueDate) ==
    IF time >= dueDate THEN "late" ELSE "submitted"

\* submitAssignment: isLate = now > dueDate; "late" or "submitted"
SubmissionStatus(time, dueDate) ==
    IF time > dueDate THEN "late" ELSE "submitted"

\* assignmentSchema.pre("save"): a submitted submission after the due date
\* becomes late
PreSave(a) ==
    [a EXCEPT !.submissions =
        [i \in DOMAIN a.submissions |->
            IF /\ a.submissions[i].submittedAt > a.dueDate
               /\ a.submissions[i].status = "submitted"
            THEN [a.submissions[i] EXCEPT !.status = "late"]
            ELSE a.submissions[i]]]

\* assignment.submissions.findIndex(sub => sub.student === id), 0 for -1
SubmissionIndex(submissions, u) ==
    IF \E i \in DOMAIN submissions : submissions[i].student = u
    THEN CHOOSE i \in DOMAIN submissions :
            /\ submissions[i].student = u
            /\ \A j \in 1..(i - 1) : submissions[j].student # u
    ELSE 0

\* assignment.submissions.id(submissionId), 0 for null
SubmissionById(submissions, submissionId) ==
    IF \E i \in DOMAIN submissions : submissions[i].id = submissionId
    THEN CHOOSE i \in DOMAIN submissions : submissions[i].id = submissionId
    ELSE 0

\* req.body.submissionText and the submission URL; "" is none
SubmissionContents ==
    {[text |-> "", url |-> ""],
     [text |-> "essay", url |-> ""],
     [text |-> "", url |-> "file"]}

\* What storing { ...subdocument, fields } at an array index does is up to
\* the Mongoose version, which the repository does not fix: the object is
\* cast with the old and the new fields ("merged"), cast from the old
\* document alone ("kept"), or cast without the schema paths of the old
\* document, so that the required student is missing and save() throws a
\* ValidationError ("invalid").
ResubmissionOutcomes == {"merged", "kept", "invalid"}

\* POST /api/assignments/:id/submit (students)
SubmitAssignment(u, content, outcome) ==
    LET time == now + 1
        studentEnrollment == StudentIndex(course, u)
        isEnrolled ==
            /\ studentEnrollment # 0
            /\ course.students[studentEnrollment].enrollmentStatus = "approved"
        submissionStatus == SubmissionStatus(time, assignment.dueDate)
        existingSubmissionIndex == SubmissionIndex(assignment.submissions, u)
        oldSubmission == assignment.submissions[existingSubmissionIndex]
        merged == [oldSubmission EXCEPT
                      !.submissionUrl = IF content.url # "" THEN content.url
                                        ELSE oldSubmission.submissionUrl,
                      !.submissionText = IF content.text # "" THEN content.text
                                         ELSE oldSubmission.submissionText,
                      !.submittedAt = time,
                      !.status = submissionStatus]
        created == [id |-> Len(assignment.submissions) + 1,
                    student |-> u,
                    submissionUrl |-> content.url,
                    submissionText |-> content.text,
                    submittedAt |-> time,
                    grade |-> NoGrade,
                    status |-> submissionStatus]
        saved ==
            IF existingSubmissionIndex = 0
            THEN PreSave([assignment EXCEPT !.submissions = Append(@, created)])
            ELSE IF outcome = "merged"
            THEN PreSave([assignment EXCEPT
                             !.submissions[existingSubmissionIndex] = merged])
            ELSE PreSave(assignment)
    IN  /\ now < MaxTime
        /\ UNCHANGED <<course, quiz, enrolledCourses, pending, liveClass>>
        /\ IF content.url = "" /\ content.text = ""
           THEN /\ resp' = Response("submitAssignment", u, content, 400, NoData)
                /\ UNCHANGED <<assignment, now>>
           ELSE IF ~isEnrolled
           THEN /\ resp' = Response("submitAssignment", u, content, 403, NoData)
                /\ UNCHANGED <<assignment, now>>
           ELSE IF existingSubmissionIndex # 0 /\ outcome = "invalid"
           THEN /\ resp' = Response("submitAssignment", u, content, 500, NoData)
                /\ now' = time
                /\ UNCHANGED assignment
           ELSE /\ assignment' = saved
                /\ now' = time
                /\ resp' = Response("submitAssignment", u, content, 200,
                                    [assignment |-> saved])

\* req.body.score of gradeSubmission
Scores == (0 - 1)..(MaxPoints + 1)

\* POST /api/assignments/:id/grade/:submissionId (teachers, admins)
GradeSubmission(u, submissionId, score) ==
    LET req == [submissionId |-> submissionId, score |-> score]
        time == now + 1
        k == SubmissionById(assignment.submissions, submissionId)
        saved == PreSave([assignment EXCEPT
                             !.submissions[k].grade =
                                 [score |-> score, gradedBy |-> u,
                                  gradedAt |-> time],
                             !.submissions[k].status = "graded"])
    IN  /\ now < MaxTime
        /\ UNCHANGED <<course, quiz, enrolledCourses, pending, liveClass>>
        /\ IF course.instructor # u /\ Role(u) # "admin"
           THEN /\ resp' = Response("gradeSubmission", u, req, 403, NoData)
                /\ UNCHANGED <<assignment, now>>
           ELSE IF k = 0
           THEN /\ resp' = Response("gradeSubmission", u, req, 404, NoData)
                /\ UNCHANGED <<assignment, now>>
           ELSE /\ assignment' = saved
                /\ now' = time
                /\ resp' = Response("gradeSubmission", u, req, 200,
                                    [assignment |-> saved])

(***************************************************************************)
(* Quiz handlers.                                                          *)
(***************************************************************************)
\* POST /api/quizzes/:id/attempt (students): the handler as one step
StartQuizAttempt(u) ==
    LET existingAttempt == ExistingAttempt(quiz.attempts, u)
        attempts == Append(quiz.attempts, NewAttempt(u, quiz.questions, now + 1))
        saved == [quiz EXCEPT !.attempts = attempts]
        newAttempt == attempts[IncompleteIndex(attempts, u)]
    IN  /\ UNCHANGED <<course, enrolledCourses, pending, assignment, liveClass>>
        /\ IF quiz = NoQuiz
           THEN /\ resp' = Response("startQuizAttempt", u, NoData, 404, NoData)
                /\ UNCHANGED <<quiz, now>>
           ELSE IF ~IsEnrolled(course, u)
           THEN /\ resp' = Response("startQuizAttempt", u, NoData, 403, NoData)
                /\ UNCHANGED <<quiz, now>>
           ELSE IF ~quiz.isActive
           THEN /\ resp' = Response("startQuizAttempt", u, NoData, 400, NoData)
                /\ UNCHANGED <<quiz, now>>
           ELSE IF existingAttempt # 0
           THEN /\ resp' = Response("startQuizAttempt", u, NoData, 200,
                                    [attempt |-> quiz.attempts[existingAttempt]])
                /\ UNCHANGED <<quiz, now>>
           ELSE /\ Len(quiz.attempts) < MaxAttempts
                /\ now' = now + 1
                /\ quiz' = saved
                /\ resp' = Response("startQuizAttempt", u, NoData, 201,
                                    [quiz |-> QuizView(saved, TRUE),
                                     attempt |-> newAttempt])

\* submitQuizAttempt declares no `course`: reading course.students in the
\* branch of a passed attempt throws a ReferenceError
CourseInScope == FALSE

\* the upsert of quizScores and the recalculation, as written for a course
\* that were in scope
RecordQuizScore(c, u, quizId, totalScore, maxScore) ==
    LET courseStudentIndex == StudentIndex(c, u)
        quizScore == [quizId |-> quizId, score |-> totalScore,
                      maxScore |-> maxScore]
        quizScores == c.students[courseStudentIndex].progress.quizScores
        existingScoreIndex == QuizScoreIndex(quizScores, quizId)
        updated ==
            [c EXCEPT !.students[courseStudentIndex].progress.quizScores =
                IF existingScoreIndex # 0
                THEN [quizScores EXCEPT ![existingScoreIndex] = quizScore]
                ELSE Append(quizScores, quizScore)]
    IN  IF courseStudentIndex # 0
        THEN CalculateStudentProgress(updated, u).course
        ELSE c

\* PUT /api/quizzes/:id/attempt (students)
SubmitQuizAttempt(u, answers) ==
    LET attemptIndex == ActiveAttempt(quiz.attempts, u)
        maxScore == SumPoints(quiz.questions)
        gradedAnswers == GradedAnswers(quiz.questions, answers)
        totalScore == TotalScore(gradedAnswers)
        passed == Passed(totalScore, maxScore, quiz.passingScore)
        attempt == [quiz.attempts[attemptIndex] EXCEPT
                       !.answers = gradedAnswers,
                       !.score = totalScore,
                       !.maxScore = maxScore,
                       !.completedAt = now + 1,
                       !.timeSpent =
                           (now + 1) - quiz.attempts[attemptIndex].startedAt,
                       !.passed = passed]
        data == [attempt |-> attempt,
                 score |-> totalScore,
                 maxScore |-> maxScore,
                 percentage |-> Percentage(totalScore, maxScore),
                 passed |-> passed]
    IN  /\ UNCHANGED <<enrolledCourses, pending, assignment, liveClass>>
        /\ IF quiz = NoQuiz
           THEN /\ resp' = Response("submitQuizAttempt", u, answers, 404, NoData)
                /\ UNCHANGED <<quiz, course, now>>
           ELSE IF attemptIndex = 0
           THEN /\ resp' = Response("submitQuizAttempt", u, answers, 404, NoData)
                /\ UNCHANGED <<quiz, course, now>>
           ELSE IF GradingThrows(quiz.questions, answers)
           THEN /\ resp' = Response("submitQuizAttempt", u, answers, 500, NoData)
                /\ UNCHANGED <<quiz, course, now>>
           ELSE /\ now' = now + 1
                /\ quiz' = [quiz EXCEPT !.attempts[attemptIndex] = attempt]
                /\ IF passed /\ ~CourseInScope
                   THEN /\ resp' = Response("submitQuizAttempt", u, answers,
                                            500, NoData)
                        /\ UNCHANGED course
                   ELSE /\ course' =
                               IF passed
                               THEN RecordQuizScore(course, u, quiz.id,
                                                    totalScore, maxScore)
                               ELSE course
                        /\ resp' = Response("submitQuizAttempt", u, answers,
                                            200, data)

\* a test that is content when no attempt of the quiz is completed
HasCompletedAttempts(q) ==
    \E i \in DOMAIN q.attempts : q.attempts[i].completedAt # Undefined

\* updateQuiz, deleteQuiz: quiz.attempts.length > 0
HasAttempts(q) == Len(q.attempts) > 0

\* PUT /api/quizzes/:id (teachers, admins); body is req.body
UpdateQuiz(u, body) ==
    /\ UNCHANGED <<course, enrolledCourses, now, pending, assignment, liveClass>>
    /\ IF quiz = NoQuiz
       THEN /\ resp' = Response("updateQuiz", u, body, 404, NoData)
            /\ UNCHANGED quiz
       ELSE IF course.instructor # u /\ Role(u) # "admin"
       THEN /\ resp' = Response("updateQuiz", u, body, 403, NoData)
            /\ UNCHANGED quiz
       ELSE IF HasAttempts(quiz)
       THEN /\ resp' = Response("updateQuiz", u, body, 400, NoData)
            /\ UNCHANGED quiz
       ELSE LET updatedQuiz == [quiz EXCEPT
                                   !.questions = body.questions,
                                   !.passingScore = body.passingScore]
            IN  /\ quiz' = updatedQuiz
                /\ resp' = Response("updateQuiz", u, body, 200,
                                    [quiz |-> updatedQuiz])

\* DELETE /api/quizzes/:id (teachers, admins)
DeleteQuiz(u) ==
    /\ UNCHANGED <<course, enrolledCourses, now, pending, assignment, liveClass>>
    /\ IF quiz = NoQuiz
       THEN /\ resp' = Response("deleteQuiz", u, NoData, 404, NoData)
            /\ UNCHANGED quiz
       ELSE IF course.instructor # u /\ Role(u) # "admin"
       THEN /\ resp' = Response("deleteQuiz", u, NoData, 403, NoData)
            /\ UNCHANGED quiz
       ELSE IF HasAttempts(quiz)
       THEN /\ resp' = Response("deleteQuiz", u, NoData, 400, NoData)
            /\ UNCHANGED quiz
       ELSE /\ quiz' = NoQuiz
            /\ resp' = Response("deleteQuiz", u, NoData, 200, NoData)

\* GET /api/quizzes/:id (any signed-in user)
GetQuiz(u) ==
    LET isInstructor == (course.instructor = u)
        studentAttempt == CompletedIndex(quiz.attempts, u)
        hide == ~isInstructor /\ Role(u) # "admin" /\ studentAttempt = 0
    IN  /\ UNCHANGED <<course, quiz, enrolledCourses, now, pending, assignment, liveClass>>
        /\ IF quiz = NoQuiz
           THEN resp' = Response("getQuiz", u, NoData, 404, NoData)
           ELSE IF ~isInstructor /\ ~IsEnrolled(course, u) /\ Role(u) # "admin"
           THEN resp' = Response("getQuiz", u, NoData, 403, NoData)
           ELSE resp' = Response("getQuiz", u, NoData, 200,
                                 [quiz |-> QuizView(quiz, hide)])

\* GET /api/courses/:courseId/quizzes (any signed-in user)
GetCourseQuizzes(u) ==
    LET isInstructor == (course.instructor = u)
        studentAttempt == FirstAttemptIndex(quiz.attempts, u)
        hide == /\ ~isInstructor /\ Role(u) # "admin"
                /\ \/ studentAttempt = 0
                   \/ quiz.attempts[studentAttempt].completedAt = Undefined
    IN  /\ UNCHANGED <<course, quiz, enrolledCourses, now, pending, assignment, liveClass>>
        /\ IF ~isInstructor /\ ~IsEnrolled(course, u) /\ Role(u) # "admin"
           THEN resp' = Response("getCourseQuizzes", u, NoData, 403, NoData)
           ELSE IF quiz = NoQuiz
           THEN resp' = Response("getCourseQuizzes", u, NoData, 200, NoData)
           ELSE resp' = Response("getCourseQuizzes", u, NoData, 200,
                                 [quiz |-> QuizView(quiz, hide)])

(***************************************************************************)
(* Quiz results.                                                           *)
(***************************************************************************)
\* one element of completedAttempts, as the map builds it
AttemptResult(attempt) ==
    [student |-> attempt.student,
     score |-> attempt.score,
     maxScore |-> attempt.maxScore,
     percentage |-> Percentage(attempt.score, attempt.maxScore),
     passed |-> attempt.passed,
     answers |-> attempt.answers,
     startedAt |-> attempt.startedAt,
     completedAt |-> attempt.completedAt,
     timeSpent |-> attempt.timeSpent]

\* a selection that keeps the attempts in progress as well
RECURSIVE AllAttemptResults(_)
AllAttemptResults(attempts) ==
    IF attempts = <<>> THEN <<>>
    ELSE <<AttemptResult(Head(attempts))>> \o AllAttemptResults(Tail(attempts))

\* quiz.attempts.filter(attempt => attempt.completedAt).map(...)
RECURSIVE CompletedAttemptResults(_)
CompletedAttemptResults(attempts) ==
    IF attempts = <<>> THEN <<>>
    ELSE (IF Head(attempts).completedAt # Undefined
          THEN <<AttemptResult(Head(attempts))>> ELSE <<>>)
         \o CompletedAttemptResults(Tail(attempts))

\* the place of one more element in a list sorted by (a, b) => b.score -
\* a.score: behind the elements it does not beat (the sort is stable)
RECURSIVE InsertByScore(_, _)
InsertByScore(sorted, x) ==
    IF sorted = <<>> THEN <<x>>
    ELSE IF Head(sorted).score >= x.score
    THEN <<Head(sorted)>> \o InsertByScore(Tail(sorted), x)
    ELSE <<x>> \o sorted

\* .sort((a, b) => b.score - a.score)
RECURSIVE SortByScore(_)
SortByScore(results) ==
    IF results = <<>> THEN <<>>
    ELSE InsertByScore(SortByScore(SubSeq(results, 1, Len(results) - 1)),
                       results[Len(results)])

\* a count that takes every completed attempt for a passed one
PassedAttemptsAll(completedAttempts) == Len(completedAttempts)

\* completedAttempts.filter(a => a.passed).length
PassedAttempts(completedAttempts) ==
    Cardinality({i \in DOMAIN completedAttempts : completedAttempts[i].passed})

\* count ? Math.round((part / count) * 100) : 0
RoundedShare(part, count) ==
    IF count # 0 THEN MathRound(100 * part, count) ELSE 0

\* completedAttempts.reduce((sum, a) => sum + a.percentage, 0); NaN spreads
RECURSIVE SumPercentages(_)
SumPercentages(completedAttempts) ==
    IF completedAttempts = <<>> THEN 0
    ELSE LET rest == SumPercentages(Tail(completedAttempts))
         IN  IF Head(completedAttempts).percentage = NaN \/ rest = NaN
             THEN NaN
             ELSE Head(completedAttempts).percentage + rest

\* totalAttempts ? Math.round(sum / totalAttempts) : 0
AverageScore(completedAttempts) ==
    IF Len(completedAttempts) = 0 THEN 0
    ELSE IF SumPercentages(completedAttempts) = NaN THEN NaN
    ELSE MathRound(SumPercentages(completedAttempts), Len(completedAttempts))

\* a.answers.some / a.answers.find on ans.questionIndex === index
AnswerIndex(answers, index) ==
    IF \E k \in DOMAIN answers : answers[k].questionIndex = index
    THEN CHOOSE k \in DOMAIN answers :
            /\ answers[k].questionIndex = index
            /\ \A j \in 1..(k - 1) : answers[j].questionIndex # index
    ELSE 0

\* statistics that take every completed attempt for one that answered the
\* question
QuestionStatsOverAll(questions, completedAttempts) ==
    [n \in DOMAIN questions |->
        LET index == n - 1
            attempts == DOMAIN completedAttempts
            correctAnswers ==
                Cardinality({i \in attempts :
                    /\ AnswerIndex(completedAttempts[i].answers, index) # 0
                    /\ completedAttempts[i].answers[
                           AnswerIndex(completedAttempts[i].answers, index)
                       ].isCorrect})
        IN  [questionIndex |-> index,
             totalAttempts |-> Cardinality(attempts),
             correctAnswers |-> correctAnswers,
             correctPercentage |->
                 RoundedShare(correctAnswers, Cardinality(attempts))]]

\* quiz.questions.map((question, index) => ...); index is 0-based
QuestionStats(questions, completedAttempts) ==
    [n \in DOMAIN questions |->
        LET index == n - 1
            attempts ==
                {i \in DOMAIN completedAttempts :
                    AnswerIndex(completedAttempts[i].answers, index) # 0}
            correctAnswers ==
                Cardinality({i \in attempts :
                    completedAttempts[i].answers[
                        AnswerIndex(completedAttempts[i].answers, index)
                    ].isCorrect})
        IN  [questionIndex |-> index,
             totalAttempts |-> Cardinality(attempts),
             correctAnswers |-> correctAnswers,
             correctPercentage |->
                 RoundedShare(correctAnswers, Cardinality(attempts))]]

\* the data of the getQuizResults response
QuizResults(q) ==
    LET completedAttempts == SortByScore(CompletedAttemptResults(q.attempts))
        totalAttempts == Len(completedAttempts)
        passedAttempts == PassedAttempts(completedAttempts)
    IN  [quizInfo |-> [totalQuestions |-> Len(q.questions),
                       passingScore |-> q.passingScore],
         stats |-> [totalAttempts |-> totalAttempts,
                    passedAttempts |-> passedAttempts,
                    passRate |-> RoundedShare(passedAttempts, totalAttempts),
                    averageScore |-> AverageScore(completedAttempts)],
         questionStats |-> QuestionStats(q.questions, completedAttempts),
         attempts |-> completedAttempts]

\* GET /api/quizzes/:id/results (teachers, admins)
GetQuizResults(u) ==
    /\ UNCHANGED <<course, quiz, enrolledCourses, now, pending, assignment, liveClass>>
    /\ IF quiz = NoQuiz
       THEN resp' = Response("getQuizResults", u, NoData, 404, NoData)
       ELSE IF course.instructor # u /\ Role(u) # "admin"
       THEN resp' = Response("getQuizResults", u, NoData, 403, NoData)
       ELSE resp' = Response("getQuizResults", u, NoData, 200,
                             QuizResults(quiz))

(***************************************************************************)
(* Live class handlers.  The clock of the model counts minutes.           *)
(***************************************************************************)
\* a lookup that finds the record of a user only while they have not left
ExistingAttendeePresent(attendees, u) ==
    IF \E i \in DOMAIN attendees :
          attendees[i].student = u /\ attendees[i].leftAt = Undefined
    THEN CHOOSE i \in DOMAIN attendees :
            /\ attendees[i].student = u /\ attendees[i].leftAt = Undefined
            /\ \A j \in 1..(i - 1) :
                  ~(attendees[j].student = u /\ attendees[j].leftAt = Undefined)
    ELSE 0

\* liveClass.attendees.find(a => a.student === id), 0 for undefined
ExistingAttendee(attendees, u) ==
    IF \E i \in DOMAIN attendees : attendees[i].student = u
    THEN CHOOSE i \in DOMAIN attendees :
            /\ attendees[i].student = u
            /\ \A j \in 1..(i - 1) : attendees[j].student # u
    ELSE 0

\* the record joinLiveClass pushes (duration by schema default)
NewAttendee(u, joinedAt) ==
    [student |-> u, joinedAt |-> joinedAt, leftAt |-> Undefined,
     duration |-> 0]

\* the call of the video platform that cancelLiveClass awaits
ExternalOutcomes == {"done", "failed"}

\* PUT /api/live-classes/:id/start (teachers, admins)
StartLiveClass(u) ==
    /\ UNCHANGED <<course, quiz, enrolledCourses, now, pending, assignment>>
    /\ IF liveClass.instructor # u
       THEN /\ resp' = Response("startLiveClass", u, NoData, 403, NoData)
            /\ UNCHANGED liveClass
       ELSE /\ liveClass' = [liveClass EXCEPT !.status = "in_progress"]
            /\ resp' = Response("startLiveClass", u, NoData, 200, NoData)

\* PUT /api/live-classes/:id/end (teachers, admins)
EndLiveClass(u) ==
    /\ UNCHANGED <<course, quiz, enrolledCourses, now, pending, assignment>>
    /\ IF liveClass.instructor # u
       THEN /\ resp' = Response("endLiveClass", u, NoData, 403, NoData)
            /\ UNCHANGED liveClass
       ELSE /\ liveClass' = [liveClass EXCEPT !.status = "completed"]
            /\ resp' = Response("endLiveClass", u, NoData, 200, NoData)

\* DELETE /api/live-classes/:id (teachers, admins)
CancelLiveClass(u, outcome) ==
    /\ UNCHANGED <<course, quiz, enrolledCourses, now, pending, assignment>>
    /\ IF liveClass.instructor # u /\ Role(u) # "admin"
       THEN /\ resp' = Response("cancelLiveClass", u, NoData, 403, NoData)
            /\ UNCHANGED liveClass
       ELSE IF outcome = "failed"
       THEN /\ resp' = Response("cancelLiveClass", u, NoData, 500, NoData)
            /\ UNCHANGED liveClass
       ELSE /\ liveClass' = [liveClass EXCEPT !.status = "canceled"]
            /\ resp' = Response("cancelLiveClass", u, NoData, 200, NoData)

\* PUT /api/live-classes/:id/join (any signed-in user)
JoinLiveClass(u) ==
    LET isInstructor == (course.instructor = u)
        isEnrolled == IsEnrolled(course, u)
        status == IF isInstructor /\ liveClass.status = "scheduled"
                  THEN "in_progress" ELSE liveClass.status
        existingAttendee == ExistingAttendee(liveClass.attendees, u)
        attendees ==
            IF isInstructor THEN liveClass.attendees
            ELSE IF existingAttendee # 0
            THEN [liveClass.attendees EXCEPT ![existingAttendee].joinedAt = now]
            ELSE Append(liveClass.attendees, NewAttendee(u, now))
    IN  /\ UNCHANGED <<course, quiz, enrolledCourses, now, pending, assignment>>
        /\ IF liveClass.status # "in_progress" /\ liveClass.status # "scheduled"
           THEN /\ resp' = Response("joinLiveClass", u, NoData, 400, NoData)
                /\ UNCHANGED liveClass
           ELSE IF ~isInstructor /\ ~isEnrolled /\ Role(u) # "admin"
           THEN /\ resp' = Response("joinLiveClass", u, NoData, 403, NoData)
                /\ UNCHANGED liveClass
           ELSE /\ liveClass' = [liveClass EXCEPT !.status = status,
                                                   !.attendees = attendees]
                /\ resp' = Response("joinLiveClass", u, NoData, 200, NoData)

\* PUT /api/live-classes/:id/leave (any signed-in user)
LeaveLiveClass(u) ==
    LET attendeeIndex == ExistingAttendee(liveClass.attendees, u)
        joinTime == liveClass.attendees[attendeeIndex].joinedAt
        leaveTime == now
        durationMinutes == MathRound(leaveTime - joinTime, 1)
    IN  /\ UNCHANGED <<course, quiz, enrolledCourses, now, pending, assignment>>
        /\ resp' = Response("leaveLiveClass", u, NoData, 200, NoData)
        /\ IF liveClass.instructor # u /\ attendeeIndex # 0
           THEN liveClass' =
                    [liveClass EXCEPT
                        !.attendees[attendeeIndex].leftAt = leaveTime,
                        !.attendees[attendeeIndex].duration = durationMinutes]
           ELSE UNCHANGED liveClass

(***************************************************************************)
(* startQuizAttempt as the two steps its awaits cut it into: the read of  *)
(* the quiz with the checks on it, and the push with the save.  The save  *)
(* of a document whose array was pushed to sends the pushed element only  *)
(* ($push), so the stored array keeps what other requests stored since    *)
(* the read.                                                               *)
(***************************************************************************)
StartQuizAttemptRead(u) ==
    /\ Cardinality(pending) < MaxPending
    /\ quiz # NoQuiz
    /\ IsEnrolled(course, u)
    /\ quiz.isActive
    /\ IncompleteIndex(quiz.attempts, u) = 0
    /\ pending' = pending \cup {[user |-> u, quiz |-> quiz]}
    /\ pending' # pending
    /\ resp' = Response("startQuizAttempt", u, NoData, 0, NoData)
    /\ UNCHANGED <<course, quiz, enrolledCourses, now, assignment, liveClass>>

StartQuizAttemptSave(request) ==
    LET u == request.user
        pushed == NewAttempt(u, request.quiz.questions, now + 1)
        loaded == [request.quiz EXCEPT !.attempts = Append(@, pushed)]
        newAttempt == loaded.attempts[IncompleteIndex(loaded.attempts, u)]
    IN  /\ Len(quiz.attempts) < MaxAttempts
        /\ now' = now + 1
        /\ quiz' = [quiz EXCEPT !.attempts = Append(@, pushed)]
        /\ pending' = pending \ {request}
        /\ resp' = Response("startQuizAttempt", u, NoData, 201,
                            [quiz |-> QuizView(loaded, TRUE),
                             attempt |-> newAttempt])
        /\ UNCHANGED <<course, enrolledCourses, assignment, liveClass>>

(***************************************************************************)
(* The whole system: every handler runs to completion, one at a time.     *)
(***************************************************************************)
\* percentage thresholds of quizSchema.passingScore (min 0, max 100)
PassingScores == {0, 50, 67}

Init ==
    /\ course \in CourseDocuments({"published", "draft"}, BOOLEAN,
                                  CourseQuizLists)
    /\ quiz \in QuizDocuments(BOOLEAN, PassingScores,
                              SeqsUpTo(Questions, MaxQuestions))
    /\ enrolledCourses = [u \in Students |-> <<>>]
    /\ now = 0
    /\ resp = NoResponse
    /\ pending = {}
    /\ assignment \in AssignmentDocuments({1})
    /\ liveClass \in LiveClassDocuments({Instructor})

Enrollment ==
    \/ \E u \in Students : EnrollCourse(u)
    \/ \E u \in {Instructor, Admin}, s \in Students,
          status \in {"approved", "rejected", "pending"} :
          UpdateEnrollmentStatus(u, s, status)

CourseContent ==
    \/ \E u \in {Instructor, Admin}, moduleIndex \in ModuleOrders,
          isRequired \in IsRequiredInputs :
          AddCourseMaterial(u, moduleIndex, isRequired)
    \/ \E u \in Students, lessonId \in LessonIds \cup {NoLesson},
          moduleIndex \in {Undefined} \cup ModuleOrders,
          completed \in BOOLEAN :
          UpdateCourseProgress(u, lessonId, moduleIndex, completed)

QuizAttempts ==
    \/ \E u \in Students : StartQuizAttempt(u)
    \/ \E u \in Students, answers \in AnswerLists : SubmitQuizAttempt(u, answers)

QuizViews ==
    \/ \E u \in Users : GetQuiz(u)
    \/ \E u \in Users : GetCourseQuizzes(u)

Next == Enrollment \/ CourseContent \/ QuizAttempts \/ QuizViews

Spec == Init /\ [][Next]_vars

(***************************************************************************)
(* The quiz aggregate: enrollment and the quiz handlers, on a quiz of one  *)
(* question, which an answer list can pass, fail or overrun.              *)
(***************************************************************************)
LifecycleQuestions == <<[correctAnswer |-> 1, points |-> 1]>>

InitQuiz ==
    /\ course \in CourseDocuments({"published", "draft"}, BOOLEAN, {<<>>})
    /\ quiz \in QuizDocuments(BOOLEAN, {50}, {LifecycleQuestions})
    /\ enrolledCourses = [u \in Students |-> <<>>]
    /\ now = 0
    /\ resp = NoResponse
    /\ pending = {}
    /\ assignment \in AssignmentDocuments({1})
    /\ liveClass \in LiveClassDocuments({Instructor})

NextQuiz == Enrollment \/ QuizAttempts \/ QuizViews

SpecQuiz == InitQuiz /\ [][NextQuiz]_vars

(***************************************************************************)
(* The course aggregate: enrollment, materials and lesson progress.       *)
(***************************************************************************)
InitCourse ==
    /\ course \in CourseDocuments({"published"}, BOOLEAN, {<<>>})
    /\ quiz \in QuizDocuments({TRUE}, {50}, {LifecycleQuestions})
    /\ enrolledCourses = [u \in Students |-> <<>>]
    /\ now = 0
    /\ resp = NoResponse
    /\ pending = {}
    /\ assignment \in AssignmentDocuments({1})
    /\ liveClass \in LiveClassDocuments({Instructor})

NextCourse == Enrollment \/ CourseContent

SpecCourse == InitCourse /\ [][NextCourse]_vars

(***************************************************************************)
(* Enrollment alone: requests of the students and decisions of the        *)
(* teachers, the instructor of the course or not, and of the admin.       *)
(***************************************************************************)
InitEnrollment ==
    /\ course \in CourseDocuments({"published", "draft"}, BOOLEAN, {<<>>})
    /\ quiz \in QuizDocuments({TRUE}, {50}, {LifecycleQuestions})
    /\ enrolledCourses = [u \in Students |-> <<>>]
    /\ now = 0
    /\ resp = NoResponse
    /\ pending = {}
    /\ assignment \in AssignmentDocuments({1})
    /\ liveClass \in LiveClassDocuments({Instructor})

NextEnrollment ==
    \/ \E u \in Students : EnrollCourse(u)
    \/ \E u \in {Instructor, Admin, OtherTeacher}, s \in Students,
          status \in {"approved", "rejected", "pending"} :
          UpdateEnrollmentStatus(u, s, status)

SpecEnrollment == InitEnrollment /\ [][NextEnrollment]_vars

(***************************************************************************)
(* Grading: the submissions of a student who has started an attempt, on   *)
(* every quiz of the bounds.                                               *)
(***************************************************************************)
InitGrade ==
    /\ course = [status |-> "published",
                 enrollmentRequiresApproval |-> FALSE,
                 instructor |-> Instructor,
                 students |-> <<NewEnrollment("s1", "approved", 0)>>,
                 modules |-> <<>>,
                 quizzes |-> <<>>]
    /\ \E q \in QuizDocuments({TRUE}, PassingScores,
                              SeqsUpTo(Questions, MaxQuestions)) :
          quiz = [q EXCEPT !.attempts = <<NewAttempt("s1", q.questions, 1)>>]
    /\ enrolledCourses = [u \in Students |-> IF u = "s1" THEN <<CourseId>>
                                             ELSE <<>>]
    /\ now = 1
    /\ resp = NoResponse
    /\ pending = {}
    /\ assignment \in AssignmentDocuments({1})
    /\ liveClass \in LiveClassDocuments({Instructor})

NextGrade == \E answers \in AnswerLists : SubmitQuizAttempt("s1", answers)

SpecGrade == InitGrade /\ [][NextGrade]_vars

(***************************************************************************)
(* Quizzes without points: no question, or questions of points 0 (the     *)
(* schema sets no minimum on points).                                      *)
(***************************************************************************)
ZeroPointQuestions == [correctAnswer : {0, 1}, points : {0, 1}]

InitZero ==
    /\ course = [status |-> "published",
                 enrollmentRequiresApproval |-> FALSE,
                 instructor |-> Instructor,
                 students |-> <<NewEnrollment("s1", "approved", 0)>>,
                 modules |-> <<>>,
                 quizzes |-> <<>>]
    /\ quiz \in QuizDocuments({TRUE}, PassingScores,
                              SeqsUpTo(ZeroPointQuestions, MaxQuestions))
    /\ enrolledCourses = [u \in Students |-> IF u = "s1" THEN <<CourseId>>
                                             ELSE <<>>]
    /\ now = 0
    /\ resp = NoResponse
    /\ pending = {}
    /\ assignment \in AssignmentDocuments({1})
    /\ liveClass \in LiveClassDocuments({Instructor})

NextZero ==
    \/ StartQuizAttempt("s1")
    \/ \E answers \in AnswerLists : SubmitQuizAttempt("s1", answers)

SpecZero == InitZero /\ [][NextZero]_vars

(***************************************************************************)
(* The quiz aggregate with startQuizAttempt requests that interleave.     *)
(***************************************************************************)
InitRace ==
    /\ course \in CourseDocuments({"published"}, {FALSE}, {<<>>})
    /\ quiz \in QuizDocuments({TRUE}, {50}, {LifecycleQuestions})
    /\ enrolledCourses = [u \in Students |-> <<>>]
    /\ now = 0
    /\ resp = NoResponse
    /\ pending = {}
    /\ assignment \in AssignmentDocuments({1})
    /\ liveClass \in LiveClassDocuments({Instructor})

NextRace ==
    \/ \E u \in Students : EnrollCourse(u)
    \/ \E u \in Students : StartQuizAttemptRead(u)
    \/ \E request \in pending : StartQuizAttemptSave(request)
    \/ QuizAttempts

SpecRace == InitRace /\ [][NextRace]_vars

(***************************************************************************)
(* One student's way through a course that holds the quiz: enrollment,    *)
(* materials, lesson progress and quiz attempts.                           *)
(***************************************************************************)
InitCompletion ==
    /\ course \in CourseDocuments({"published"}, {FALSE},
                                  {<<[id |-> QuizId, passingScore |-> 1]>>})
    /\ quiz \in QuizDocuments({TRUE}, {50}, {LifecycleQuestions})
    /\ enrolledCourses = [u \in Students |-> <<>>]
    /\ now = 0
    /\ resp = NoResponse
    /\ pending = {}
    /\ assignment \in AssignmentDocuments({1})
    /\ liveClass \in LiveClassDocuments({Instructor})

NextCompletion ==
    \/ EnrollCourse("s1")
    \/ \E isRequired \in IsRequiredInputs :
          AddCourseMaterial(Instructor, 1, isRequired)
    \/ \E lessonId \in LessonIds, completed \in BOOLEAN :
          UpdateCourseProgress("s1", lessonId, Undefined, completed)
    \/ StartQuizAttempt("s1")
    \/ \E answers \in AnswerLists : SubmitQuizAttempt("s1", answers)

SpecCompletion == InitCompletion /\ [][NextCompletion]_vars

(***************************************************************************)
(* The quiz with its results: attempts on a quiz of two questions and the *)
(* statistics over them.                                                   *)
(***************************************************************************)
ResultsQuestions == <<[correctAnswer |-> 1, points |-> 1],
                      [correctAnswer |-> 0, points |-> 1]>>

InitResults ==
    /\ course \in CourseDocuments({"published"}, {FALSE}, {<<>>})
    /\ quiz \in QuizDocuments({TRUE}, {50}, {ResultsQuestions})
    /\ enrolledCourses = [u \in Students |-> <<>>]
    /\ now = 0
    /\ resp = NoResponse
    /\ pending = {}
    /\ assignment \in AssignmentDocuments({1})
    /\ liveClass \in LiveClassDocuments({Instructor})

NextResults ==
    \/ \E u \in Students : EnrollCourse(u)
    \/ QuizAttempts
    \/ \E u \in {Instructor, Admin, OtherTeacher} : GetQuizResults(u)

SpecResults == InitResults /\ [][NextResults]_vars

(***************************************************************************)
(* The quiz with its editing: updates and deletion by the teachers,       *)
(* between the attempts of the students.                                   *)
(***************************************************************************)
\* req.body of updateQuiz: questions and passingScore
QuizUpdates == [questions : {LifecycleQuestions, ResultsQuestions},
                passingScore : {50, 67}]

InitQuizEdit ==
    /\ course \in CourseDocuments({"published"}, {FALSE}, {<<>>})
    /\ quiz \in QuizDocuments({TRUE}, {50}, {LifecycleQuestions})
    /\ enrolledCourses = [u \in Students |-> <<>>]
    /\ now = 0
    /\ resp = NoResponse
    /\ pending = {}
    /\ assignment \in AssignmentDocuments({1})
    /\ liveClass \in LiveClassDocuments({Instructor})

NextQuizEdit ==
    \/ \E u \in Students : EnrollCourse(u)
    \/ QuizAttempts
    \/ \E u \in {Instructor, Admin, OtherTeacher}, body \in QuizUpdates :
          UpdateQuiz(u, body)
    \/ \E u \in {Instructor, Admin, OtherTeacher} : DeleteQuiz(u)

SpecQuizEdit == InitQuizEdit /\ [][NextQuizEdit]_vars

(***************************************************************************)
(* The assignment aggregate: enrollment, submissions and grades.          *)
(***************************************************************************)
\* assignmentSchema.dueDate, on the clock of the model
DueDates == {1, 2}

InitAssignment ==
    /\ course \in CourseDocuments({"published"}, BOOLEAN, {<<>>})
    /\ quiz \in QuizDocuments({TRUE}, {50}, {LifecycleQuestions})
    /\ enrolledCourses = [u \in Students |-> <<>>]
    /\ now = 0
    /\ resp = NoResponse
    /\ pending = {}
    /\ assignment \in AssignmentDocuments(DueDates)
    /\ liveClass \in LiveClassDocuments({Instructor})

NextAssignment ==
    \/ \E u \in Students : EnrollCourse(u)
    \/ \E u \in Students, content \in SubmissionContents,
          outcome \in ResubmissionOutcomes :
          SubmitAssignment(u, content, outcome)
    \/ \E u \in {Instructor, Admin, OtherTeacher},
          submissionId \in 1..Cardinality(Students), score \in Scores :
          GradeSubmission(u, submissionId, score)

SpecAssignment == InitAssignment /\ [][NextAssignment]_vars

(***************************************************************************)
(* calculateStudentProgress as a function: it is applied to every course  *)
(* content and every progress record of the bounds.                       *)
(***************************************************************************)
\* materials numbered from..to with the given isRequired flags
MaterialsOf(flags, from, to) ==
    [i \in 1..(to - from + 1) |->
        [id |-> from + i - 1, isRequired |-> flags[from + i - 1]]]

\* course.modules: the materials in one module, or split over two
ModuleLists ==
    {<<>>}
    \cup {<<[order |-> 1, materials |-> MaterialsOf(f, 1, Len(f))]>> :
             f \in SeqsUpTo(BOOLEAN, MaxItems)}
    \cup UNION {{<<[order |-> 1, materials |-> MaterialsOf(f, 1, k)],
                   [order |-> 2, materials |-> MaterialsOf(f, k + 1, Len(f))]>> :
                    k \in 0..Len(f)} : f \in SeqsUpTo(BOOLEAN, MaxItems)}

QuizIds == {QuizId, "q2"}

\* course.quizzes: embedded quizzes with the score that passes them
EmbeddedQuizLists ==
    {s \in SeqsUpTo([id : QuizIds, passingScore : 1..MaxPoints], MaxItems) :
        \A i, j \in DOMAIN s : s[i].id = s[j].id => i = j}

\* progress.quizScores: at most one entry per quiz, as the upsert keeps it
QuizScoreLists ==
    {s \in SeqsUpTo([quizId : QuizIds, score : 0..MaxPoints,
                     maxScore : {MaxPoints}], MaxItems) :
        \A i, j \in DOMAIN s : s[i].quizId = s[j].quizId => i = j}

\* progress.completedLessons: no identifier twice, as the toggle keeps it
LessonLists ==
    {s \in SeqsUpTo(LessonIds, Cardinality(LessonIds)) :
        \A i, j \in DOMAIN s : s[i] = s[j] => i = j}

InitProgress ==
    /\ \E lessons \in LessonLists, scores \in QuizScoreLists,
          modules \in ModuleLists, quizzes \in EmbeddedQuizLists :
          course = [status |-> "published",
                    enrollmentRequiresApproval |-> FALSE,
                    instructor |-> Instructor,
                    students |->
                        <<[NewEnrollment("s1", "approved", 0) EXCEPT
                              !.progress.completedLessons = lessons,
                              !.progress.quizScores = scores]>>,
                    modules |-> modules,
                    quizzes |-> quizzes]
    /\ quiz \in QuizDocuments({TRUE}, {50}, {LifecycleQuestions})
    /\ enrolledCourses = [u \in Students |-> IF u = "s1" THEN <<CourseId>>
                                             ELSE <<>>]
    /\ now = 0
    /\ resp = NoResponse
    /\ pending = {}
    /\ assignment \in AssignmentDocuments({1})
    /\ liveClass \in LiveClassDocuments({Instructor})

\* course.calculateStudentProgress(studentId): its effect and its result
CalculateProgress(u) ==
    LET result == CalculateStudentProgress(course, u)
    IN  /\ course' = result.course
        /\ resp' = Response("calculateStudentProgress", u, NoData, 200,
                            [percentage |-> result.percentage])
        /\ UNCHANGED <<quiz, enrolledCourses, now, pending, assignment, liveClass>>

NextProgress == \E u \in Students : CalculateProgress(u)

SpecProgress == InitProgress /\ [][NextProgress]_vars

(***************************************************************************)
(* Module and lesson progress of two students of a course with one        *)
(* required material, with the server clock running between the requests. *)
(***************************************************************************)
\* Date.now() moves on between two requests
Tick ==
    /\ now < MaxTime
    /\ now' = now + 1
    /\ UNCHANGED <<course, quiz, enrolledCourses, resp, pending, assignment,
                   liveClass>>

InitModules ==
    /\ \E c \in CourseDocuments({"published"}, {FALSE}, {<<>>}) :
          course = [c EXCEPT !.modules =
                       <<[order |-> 1,
                          materials |-> <<[id |-> 1, isRequired |-> TRUE]>>]>>]
    /\ quiz \in QuizDocuments({TRUE}, {50}, {LifecycleQuestions})
    /\ enrolledCourses = [u \in Students |-> <<>>]
    /\ now = 0
    /\ resp = NoResponse
    /\ pending = {}
    /\ assignment \in AssignmentDocuments({1})
    /\ liveClass \in LiveClassDocuments({Instructor})

NextModules ==
    \/ \E u \in Students : EnrollCourse(u)
    \/ \E u \in Students, lessonId \in {ObjectIdToString(1), NoLesson},
          moduleIndex \in {Undefined} \cup ModuleOrders,
          completed \in BOOLEAN :
          UpdateCourseProgress(u, lessonId, moduleIndex, completed)
    \/ \E u \in Students : CalculateProgress(u)
    \/ Tick

SpecModules == InitModules /\ [][NextModules]_vars

(***************************************************************************)
(* A live class of a course with an approved and a pending student,       *)
(* scheduled by the instructor of the course or by the admin.             *)
(***************************************************************************)
InitLiveClass ==
    /\ course = [status |-> "published",
                 enrollmentRequiresApproval |-> TRUE,
                 instructor |-> Instructor,
                 students |-> <<NewEnrollment("s1", "approved", 0),
                                NewEnrollment("s2", "pending", 0)>>,
                 modules |-> <<>>,
                 quizzes |-> <<>>]
    /\ quiz \in QuizDocuments({TRUE}, {50}, {LifecycleQuestions})
    /\ enrolledCourses = [u \in Students |-> IF u = "s1" THEN <<CourseId>>
                                             ELSE <<>>]
    /\ now = 0
    /\ resp = NoResponse
    /\ pending = {}
    /\ assignment \in AssignmentDocuments({1})
    /\ liveClass \in LiveClassDocuments({Instructor, Admin})

NextLiveClass ==
    \/ \E u \in {Instructor, Admin, OtherTeacher} : StartLiveClass(u)
    \/ \E u \in {Instructor, Admin, OtherTeacher} : EndLiveClass(u)
    \/ \E u \in {Instructor, Admin, OtherTeacher},
          outcome \in ExternalOutcomes : CancelLiveClass(u, outcome)
    \/ \E u \in Users : JoinLiveClass(u)
    \/ \E u \in Users : LeaveLiveClass(u)
    \/ Tick

SpecLiveClass == InitLiveClass /\ [][NextLiveClass]_vars

(***************************************************************************)
(* The completion percentage as the data model defines it.                *)
(***************************************************************************)
SeqToSet(s) == {s[i] : i \in DOMAIN s}

\* identifiers of the required materials of all modules
RequiredLessonIds(c) ==
    UNION {{ObjectIdToString(c.modules[i].materials[j].id) :
               j \in {j \in DOMAIN c.modules[i].materials :
                         c.modules[i].materials[j].isRequired}} :
           i \in DOMAIN c.modules}

\* positions of the course quizzes with a recorded score that passes them
PassedQuizzes(c, progress) ==
    {k \in DOMAIN c.quizzes :
        \E e \in DOMAIN progress.quizScores :
            /\ progress.quizScores[e].quizId = c.quizzes[k].id
            /\ progress.quizScores[e].score >= c.quizzes[k].passingScore}

\* round half up of 100 * completed / total, 0 for no required item
ExpectedCompletion(c, progress) ==
    LET total == Cardinality(RequiredLessonIds(c)) + Len(c.quizzes)
        completed ==
            Cardinality(RequiredLessonIds(c)
                        \cap SeqToSet(progress.completedLessons))
            + Cardinality(PassedQuizzes(c, progress))
    IN  IF total = 0 THEN 0
        ELSE CHOOSE p \in 0..100 :
                /\ 2 * p * total <= 200 * completed + total
                /\ 200 * completed + total < 2 * (p + 1) * total

\* C1: in every reachable state every enrollment's stored
\* completionPercentage is the percentage of the course's current required
\* items that the student's current progress record completes.
C1_CompletionInvariant ==
    \A i \in DOMAIN course.students :
        course.students[i].progress.completionPercentage =
            ExpectedCompletion(course, course.students[i].progress)

(***************************************************************************)
(* Quiz attempts.                                                          *)
(***************************************************************************)
\* positions of the attempts of a student that are not completed
IncompleteAttempts(attempts, u) ==
    {i \in DOMAIN attempts :
        attempts[i].student = u /\ attempts[i].completedAt = Undefined}

\* positions of the attempts of a student that are completed
CompletedAttempts(attempts, u) ==
    {i \in DOMAIN attempts :
        attempts[i].student = u /\ attempts[i].completedAt # Undefined}

\* C2: no step changes an attempt that has completedAt set, and a
\* submitQuizAttempt of a student without an incomplete attempt answers 404
\* and leaves the quiz as it was.
C2_CompletedAttemptIsFinal ==
    [][/\ \A i \in DOMAIN quiz.attempts :
             quiz.attempts[i].completedAt # Undefined =>
                 /\ i \in DOMAIN quiz'.attempts
                 /\ quiz'.attempts[i] = quiz.attempts[i]
       /\ (/\ resp'.op = "submitQuizAttempt"
           /\ IncompleteAttempts(quiz.attempts, resp'.user) = {})
              => (resp'.status = 404 /\ quiz' = quiz)]_vars

\* a submission was refused for a student whose attempts are all completed
C2_Witness ==
    /\ resp.op = "submitQuizAttempt"
    /\ resp.status = 404
    /\ CompletedAttempts(quiz.attempts, resp.user) # {}
    /\ IncompleteAttempts(quiz.attempts, resp.user) = {}

\* C3: after submitQuizAttempt has graded an attempt as passed, the
\* student's progress record holds exactly one quizScores entry for the quiz,
\* with the score and maxScore of that attempt, and completionPercentage is
\* the recomputed one.
C3_PassedScoreRecorded ==
    \A i \in DOMAIN quiz.attempts :
        (/\ resp.op = "submitQuizAttempt"
         /\ resp.status # 404
         /\ quiz.attempts[i].student = resp.user
         /\ quiz.attempts[i].completedAt = now
         /\ quiz.attempts[i].passed)
        => LET k == StudentIndex(course, resp.user)
               progress == course.students[k].progress
               entries == {e \in DOMAIN progress.quizScores :
                              progress.quizScores[e].quizId = quiz.id}
           IN  /\ k # 0
               /\ Cardinality(entries) = 1
               /\ \A e \in entries :
                     /\ progress.quizScores[e].score = quiz.attempts[i].score
                     /\ progress.quizScores[e].maxScore =
                            quiz.attempts[i].maxScore
               /\ progress.completionPercentage =
                      ExpectedCompletion(course, progress)

\* the attempt the last submitQuizAttempt request graded, if it graded one
GradedAttempts ==
    {i \in DOMAIN quiz.attempts :
        /\ resp.op = "submitQuizAttempt"
        /\ resp.status # 404
        /\ quiz.attempts[i].student = resp.user
        /\ quiz.attempts[i].completedAt = now}

\* C4: every graded submission returns a passed flag that is true exactly
\* when the returned percentage is at least the quiz's passingScore.
C4_PassedIffPercentage ==
    GradedAttempts # {} =>
        /\ resp.status = 200
        /\ resp.data.passed <=> (resp.data.percentage >= quiz.passingScore)

\* sum of f over the set S
RECURSIVE SumOver(_, _)
SumOver(S, f) ==
    IF S = {} THEN 0
    ELSE LET x == CHOOSE x \in S : TRUE
         IN  f[x] + SumOver(S \ {x}, f)

\* points of the questions, by position
PointsOf(questions) == [i \in DOMAIN questions |-> questions[i].points]

\* C5: a graded attempt has as score the points of the submitted positions
\* whose answer equals the question's correctAnswer, and as maxScore the
\* points of all questions of the quiz, answered or not.
C5_ScoreAndMaxScore ==
    \A i \in GradedAttempts :
        /\ quiz.attempts[i].score =
               SumOver({k \in DOMAIN resp.req :
                           resp.req[k] = quiz.questions[k].correctAnswer},
                       PointsOf(quiz.questions))
        /\ quiz.attempts[i].maxScore =
               SumOver(DOMAIN quiz.questions, PointsOf(quiz.questions))

\* a graded submission that answered one of two questions, correctly, for
\* more than one point
C5_Witness ==
    \E i \in GradedAttempts :
        /\ Len(resp.req) = 1
        /\ Len(quiz.questions) = 2
        /\ quiz.attempts[i].score = 2
        /\ quiz.attempts[i].maxScore = 3

\* C6: a quiz holds at most one attempt without completedAt per student,
\* also when startQuizAttempt requests of one student interleave.
C6_OneIncompleteAttempt ==
    \A u \in Students : Cardinality(IncompleteAttempts(quiz.attempts, u)) <= 1

\* C7: a startQuizAttempt of a student who has an incomplete attempt answers
\* 200 with that attempt and leaves the quiz and its attempts as they were.
C7_StartResumesAttempt ==
    [][(/\ resp'.op = "startQuizAttempt"
        /\ IncompleteAttempts(quiz.attempts, resp'.user) # {})
       => /\ quiz' = quiz
          /\ resp'.status = 200
          /\ \E i \in IncompleteAttempts(quiz.attempts, resp'.user) :
                /\ resp'.data.attempt = quiz.attempts[i]
                /\ resp'.data.attempt.startedAt = quiz'.attempts[i].startedAt]_vars

\* a start request was answered with the attempt started earlier, by a
\* student who also has a completed attempt
C7_Witness ==
    /\ resp.op = "startQuizAttempt"
    /\ resp.status = 200
    /\ \E i \in IncompleteAttempts(quiz.attempts, resp.user) :
          resp.data.attempt = quiz.attempts[i]
    /\ CompletedAttempts(quiz.attempts, resp.user) # {}

\* C8: a quiz returned by startQuizAttempt, getQuiz or getCourseQuizzes to a
\* student who has an attempt in progress shows no correctAnswer.
C8_NoAnswerKeyInProgress ==
    (/\ resp.op \in {"startQuizAttempt", "getQuiz", "getCourseQuizzes"}
     /\ Role(resp.user) = "student"
     /\ IncompleteAttempts(quiz.attempts, resp.user) # {}
     /\ "quiz" \in DOMAIN resp.data)
    => \A k \in DOMAIN resp.data.quiz.questions :
          resp.data.quiz.questions[k].correctAnswer = Undefined

(***************************************************************************)
(* Lesson progress.                                                        *)
(***************************************************************************)
\* completedLessons of the enrollment record of a student
LessonsOf(c, u) ==
    LET k == CHOOSE k \in DOMAIN c.students : c.students[k].student = u
    IN  c.students[k].progress.completedLessons

\* C9: after an updateCourseProgress for a lesson the lesson is in
\* completedLessons exactly when the call passed completed = true, the other
\* lessons are as before, a call that asks for what already holds changes
\* nothing, and completedLessons holds no identifier twice.
C9_LessonToggle ==
    [][(/\ resp'.op = "updateCourseProgress"
        /\ resp'.status = 200
        /\ resp'.req.lessonId # NoLesson)
       => LET before == LessonsOf(course, resp'.user)
              after == LessonsOf(course', resp'.user)
              lessonId == resp'.req.lessonId
          IN  /\ (lessonId \in SeqToSet(after)) <=> resp'.req.completed
              /\ SeqToSet(after) \ {lessonId} = SeqToSet(before) \ {lessonId}
              /\ ((lessonId \in SeqToSet(before)) <=> resp'.req.completed)
                    => after = before
              /\ Cardinality(SeqToSet(after)) = Len(after)]_vars

\* a lesson was marked complete after another one
C9_Witness ==
    /\ resp.op = "updateCourseProgress"
    /\ resp.status = 200
    /\ resp.req.lessonId = "m1"
    /\ resp.req.completed
    /\ LessonsOf(course, resp.user) = <<"m2", "m1">>

\* C10: calculateStudentProgress returns and stores round(100 * completed /
\* total) over the required materials and the course quizzes, and 0 for a
\* course without required items (and for a student without a record).
C10_CalculateStudentProgress ==
    resp.op = "calculateStudentProgress" =>
        LET k == StudentIndex(course, resp.user)
        IN  IF k = 0 THEN resp.data.percentage = 0
            ELSE /\ resp.data.percentage =
                        ExpectedCompletion(course, course.students[k].progress)
                 /\ course.students[k].progress.completionPercentage =
                        resp.data.percentage

\* a calculation that rounds: one of three required items is completed
C10_Witness ==
    /\ resp.op = "calculateStudentProgress"
    /\ resp.data.percentage = 33
    /\ course.students[1].progress.quizScores # <<>>
    /\ course.students[1].progress.completionPercentage = 33

(***************************************************************************)
(* Enrollment and the preconditions of the student operations.            *)
(***************************************************************************)
\* the student has an enrollment record with status approved
HasApprovedEnrollment(c, u) ==
    \E k \in DOMAIN c.students :
        /\ c.students[k].student = u
        /\ c.students[k].enrollmentStatus = "approved"

\* the student has a completed attempt on the quiz that is marked passed
HasPassedQuiz(u) ==
    \E i \in CompletedAttempts(quiz.attempts, u) : quiz.attempts[i].passed

\* C11: an approved student who has marked every required material of the
\* course complete and has passed its quiz, in a course with at least one
\* required item, has completionPercentage 100.
C11_AllDoneIsHundred ==
    \A k \in DOMAIN course.students :
        (/\ course.students[k].enrollmentStatus = "approved"
         /\ Cardinality(RequiredLessonIds(course)) + Len(course.quizzes) > 0
         /\ RequiredLessonIds(course) \subseteq
                SeqToSet(course.students[k].progress.completedLessons)
         /\ \A q \in DOMAIN course.quizzes :
               /\ course.quizzes[q].id = quiz.id
               /\ HasPassedQuiz(course.students[k].student))
        => course.students[k].progress.completionPercentage = 100

\* C12: an updateCourseProgress of a user without an approved enrollment
\* answers 403 and leaves the course, with every progress record, as it was.
C12_ProgressNeedsApproval ==
    [][(/\ resp'.op = "updateCourseProgress"
        /\ ~HasApprovedEnrollment(course, resp'.user))
       => (resp'.status = 403 /\ course' = course)]_vars

\* an update was refused for a student whose enrollment was rejected
C12_Witness ==
    /\ resp.op = "updateCourseProgress"
    /\ resp.status = 403
    /\ \E k \in DOMAIN course.students :
          /\ course.students[k].student = resp.user
          /\ course.students[k].enrollmentStatus = "rejected"

\* C13: a startQuizAttempt on an inactive quiz or of a student without an
\* approved enrollment is refused and leaves the quiz as it was; every step
\* that adds an attempt is a start on an active quiz by an approved student.
C13_StartPreconditions ==
    [][/\ (/\ resp'.op = "startQuizAttempt"
           /\ (~quiz.isActive \/ ~HasApprovedEnrollment(course, resp'.user)))
          => (resp'.status \in {400, 403} /\ quiz' = quiz)
       /\ Len(quiz'.attempts) > Len(quiz.attempts)
          => /\ resp'.op = "startQuizAttempt"
             /\ resp'.status = 201
             /\ quiz.isActive
             /\ HasApprovedEnrollment(course, resp'.user)]_vars

\* a start was refused for a student whose enrollment is pending, on an
\* active quiz
C13_Witness ==
    /\ resp.op = "startQuizAttempt"
    /\ resp.status = 403
    /\ quiz.isActive
    /\ \E k \in DOMAIN course.students :
          /\ course.students[k].student = resp.user
          /\ course.students[k].enrollmentStatus = "pending"

\* C14: a submitQuizAttempt of a student without an incomplete attempt
\* answers 404 and leaves the attempts of the quiz and the course, with every
\* progress record, as they were.
C14_SubmitNeedsActiveAttempt ==
    [][(/\ resp'.op = "submitQuizAttempt"
        /\ \A i \in DOMAIN quiz.attempts :
              quiz.attempts[i].student = resp'.user
                  => quiz.attempts[i].completedAt # Undefined)
       => /\ resp'.status = 404
          /\ quiz'.attempts = quiz.attempts
          /\ course' = course]_vars

\* a submission was refused for an enrolled student who never started an
\* attempt, while another student has one in progress
C14_Witness ==
    /\ resp.op = "submitQuizAttempt"
    /\ resp.status = 404
    /\ HasApprovedEnrollment(course, resp.user)
    /\ \A i \in DOMAIN quiz.attempts : quiz.attempts[i].student # resp.user
    /\ \E i \in DOMAIN quiz.attempts :
          quiz.attempts[i].completedAt = Undefined

\* C15: every stored completionPercentage, and every percentage that
\* calculateStudentProgress returns, is an integer from 0 to 100, whatever
\* the materials, quizzes, completedLessons and quizScores are.
C15_PercentageInRange ==
    /\ \A k \in DOMAIN course.students :
          course.students[k].progress.completionPercentage \in 0..100
    /\ resp.op = "calculateStudentProgress"
          => (resp.status = 200 /\ resp.data.percentage \in 0..100)

\* a calculation over a completed lesson that is no material of the course
\* and a recorded score of a quiz that is no quiz of the course
C15_Witness ==
    /\ resp.op = "calculateStudentProgress"
    /\ resp.user = "s1"
    /\ resp.data.percentage = 50
    /\ MaterialCount(course.modules) = 1
    /\ "m2" \in SeqToSet(course.students[1].progress.completedLessons)
    /\ Len(course.quizzes) = 1
    /\ \E e \in DOMAIN course.students[1].progress.quizScores :
          course.students[1].progress.quizScores[e].quizId
              # course.quizzes[1].id

\* C20: a successful enrollCourse is on a published course and stores the
\* status pending when the course requires approval and approved when not;
\* a step adds the course to a student's enrolledCourses only when it leaves
\* that student with an approved enrollment, and in every state a student
\* with the course in enrolledCourses has an approved enrollment.
C20_EnrollmentStatus ==
    [][/\ (resp'.op = "enrollCourse" /\ resp'.status = 200 /\ resp' # resp)
          => /\ course.status = "published"
             /\ Len(course'.students) = Len(course.students) + 1
             /\ course'.students[Len(course'.students)].student = resp'.user
             /\ course'.students[Len(course'.students)].enrollmentStatus =
                    (IF course.enrollmentRequiresApproval
                     THEN "pending" ELSE "approved")
       /\ \A u \in Students :
             /\ enrolledCourses'[u] # enrolledCourses[u]
                   => HasApprovedEnrollment(course', u)
             /\ Includes(enrolledCourses'[u], CourseId)
                   => HasApprovedEnrollment(course', u)]_vars

\* a student who enrolled with status pending was approved later and has the
\* course in enrolledCourses
C20_Witness ==
    /\ resp.op = "updateEnrollmentStatus"
    /\ resp.status = 200
    /\ resp.req.status = "approved"
    /\ course.enrollmentRequiresApproval
    /\ HasApprovedEnrollment(course, resp.req.studentId)
    /\ Includes(enrolledCourses[resp.req.studentId], CourseId)

(***************************************************************************)
(* Assignments.                                                            *)
(***************************************************************************)
\* positions of the submissions of a student
SubmissionsOf(a, u) ==
    {i \in DOMAIN a.submissions : a.submissions[i].student = u}

\* the status lateness gives a submission made at the given time
StatusAt(time, dueDate) == IF dueDate < time THEN "late" ELSE "submitted"

C19_ScoreWithinPoints ==
    \A i \in DOMAIN assignment.submissions :
        assignment.submissions[i].status = "graded" =>
            /\ 0 <= assignment.submissions[i].grade.score
            /\ assignment.submissions[i].grade.score <= assignment.points

(***************************************************************************)
(* Quiz statistics.                                                        *)
(***************************************************************************)
\* positions of the attempts of the quiz that have completedAt set
CompletedPositions(attempts) ==
    {i \in DOMAIN attempts : attempts[i].completedAt # Undefined}

\* round half up of 100 * part / count, 0 for count 0
ExpectedRate(part, count) ==
    IF count = 0 THEN 0
    ELSE CHOOSE p \in 0..100 :
            /\ 2 * p * count <= 200 * part + count
            /\ 200 * part + count < 2 * (p + 1) * count

\* C16: getQuizResults on a quiz without a completed attempt answers 200
\* with totalAttempts, passedAttempts, passRate and averageScore 0 and, for
\* every question of the quiz, totalAttempts and correctPercentage 0.
C16_NoCompletedAttemptAllZero ==
    (/\ resp.op = "getQuizResults"
     /\ resp.user \in {Instructor, Admin}
     /\ CompletedPositions(quiz.attempts) = {})
    => /\ resp.status = 200
       /\ resp.data.stats = [totalAttempts |-> 0, passedAttempts |-> 0,
                             passRate |-> 0, averageScore |-> 0]
       /\ resp.data.attempts = <<>>
       /\ DOMAIN resp.data.questionStats = DOMAIN quiz.questions
       /\ \A n \in DOMAIN quiz.questions :
             /\ resp.data.questionStats[n].totalAttempts = 0
             /\ resp.data.questionStats[n].correctPercentage = 0

\* results were asked for while the only attempts of the quiz were in
\* progress
C16_Witness ==
    /\ resp.op = "getQuizResults"
    /\ resp.status = 200
    /\ Len(quiz.attempts) = 2
    /\ CompletedPositions(quiz.attempts) = {}

\* C17: getQuizResults counts the attempts with completedAt set as
\* totalAttempts and those of them with passed = true as passedAttempts,
\* and passRate is round(100 * passedAttempts / totalAttempts); a step that
\* adds an attempt leaves the results getQuizResults computes as they were.
C17_StatisticsOverCompleted ==
    [][/\ (resp'.op = "getQuizResults" /\ resp'.status = 200)
          => LET completed == CompletedPositions(quiz'.attempts)
                 passed == {i \in completed : quiz'.attempts[i].passed}
             IN  /\ resp'.data.stats.totalAttempts = Cardinality(completed)
                 /\ resp'.data.stats.passedAttempts = Cardinality(passed)
                 /\ resp'.data.stats.passRate =
                        ExpectedRate(Cardinality(passed),
                                     Cardinality(completed))
                 /\ Len(resp'.data.attempts) = Cardinality(completed)
       /\ Len(quiz'.attempts) > Len(quiz.attempts)
          => QuizResults(quiz') = QuizResults(quiz)]_vars

\* results over one passed attempt, asked for while another attempt was in
\* progress
C17_Witness ==
    /\ resp.op = "getQuizResults"
    /\ resp.status = 200
    /\ resp.data.stats.totalAttempts = 1
    /\ resp.data.stats.passedAttempts = 1
    /\ resp.data.stats.passRate = 100
    /\ Len(quiz.attempts) = 2

(***************************************************************************)
(* Quizzes without points.                                                 *)
(***************************************************************************)
\* C21: on a quiz whose questions are worth 0 points altogether (or that has
\* no question), a submitQuizAttempt that answers no more questions than the
\* quiz has completes the student's attempt with passed = false and answers
\* 200 with passed = false, whatever the passingScore is, 0 included; no
\* completed attempt with maxScore 0 is marked passed.
C21_ZeroMaxScoreNeverPasses ==
    [][/\ (/\ resp'.op = "submitQuizAttempt"
           /\ SumOver(DOMAIN quiz.questions, PointsOf(quiz.questions)) = 0
           /\ IncompleteAttempts(quiz.attempts, resp'.user) # {}
           /\ Len(resp'.req) <= Len(quiz.questions))
          => /\ resp'.status = 200
             /\ resp'.data.passed = FALSE
             /\ resp'.data.maxScore = 0
             /\ \E i \in IncompleteAttempts(quiz.attempts, resp'.user) :
                   /\ quiz'.attempts[i].completedAt # Undefined
                   /\ quiz'.attempts[i].maxScore = 0
                   /\ quiz'.attempts[i].passed = FALSE
       /\ \A i \in DOMAIN quiz'.attempts :
             (/\ quiz'.attempts[i].completedAt # Undefined
              /\ quiz'.attempts[i].maxScore = 0)
             => quiz'.attempts[i].passed = FALSE]_vars

\* every answer of a submission was right, on two questions of 0 points and
\* a passingScore of 0, and the attempt is completed as not passed
C21_Witness ==
    /\ resp.op = "submitQuizAttempt"
    /\ resp.status = 200
    /\ quiz.passingScore = 0
    /\ Len(quiz.questions) = 2
    /\ \E i \in GradedAttempts :
          /\ quiz.attempts[i].maxScore = 0
          /\ Len(quiz.attempts[i].answers) = 2
          /\ \A k \in DOMAIN quiz.attempts[i].answers :
                quiz.attempts[i].answers[k].isCorrect
          /\ quiz.attempts[i].passed = FALSE

(***************************************************************************)
(* Submissions that report or ought to report a failure.                   *)
(***************************************************************************)
\* C22: a submitQuizAttempt whose answer list is not as long as the list of
\* questions of the quiz is answered with an error and leaves the student's
\* attempt, with the whole quiz, as it was.
C22_LengthMismatchRejected ==
    [][(/\ resp'.op = "submitQuizAttempt"
        /\ IncompleteAttempts(quiz.attempts, resp'.user) # {}
        /\ Len(resp'.req) # Len(quiz.questions))
       => /\ resp'.status \notin {200, 201}
          /\ quiz' = quiz]_vars

(***************************************************************************)
(* Module progress.                                                        *)
(***************************************************************************)
\* the progress record of the enrollment of a student
ProgressOf(c, u) ==
    LET k == CHOOSE k \in DOMAIN c.students : c.students[k].student = u
    IN  c.students[k].progress

\* C23: two students of the course whose completedLessons and quizScores
\* are the same get the same percentage from calculateStudentProgress,
\* whatever their completedModules are; and a successful
\* updateCourseProgress that carries a moduleIndex and no lessonId leaves
\* completedLessons and quizScores as they were, has the module in
\* completedModules exactly when completed was true, with the other modules
\* as before, and sets lastAccessedAt to the time of the call (a step that
\* changes neither the response nor the course is the clock, not a call).
C23_ModulesDoNotCount ==
    /\ [](\A i, j \in DOMAIN course.students :
             (/\ course.students[i].progress.completedLessons =
                     course.students[j].progress.completedLessons
              /\ course.students[i].progress.quizScores =
                     course.students[j].progress.quizScores)
             => CalculateStudentProgress(course,
                                         course.students[i].student).percentage
                = CalculateStudentProgress(course,
                                           course.students[j].student).percentage)
    /\ [][(/\ resp'.op = "updateCourseProgress"
            /\ resp'.status = 200
            /\ resp'.req.lessonId = NoLesson
            /\ resp'.req.moduleIndex # Undefined
            /\ ~(resp' = resp /\ course' = course))
           => LET before == ProgressOf(course, resp'.user)
                  after == ProgressOf(course', resp'.user)
                  moduleIndex == resp'.req.moduleIndex
              IN  /\ after.completedLessons = before.completedLessons
                  /\ after.quizScores = before.quizScores
                  /\ (moduleIndex \in SeqToSet(after.completedModules))
                        <=> resp'.req.completed
                  /\ SeqToSet(after.completedModules) \ {moduleIndex} =
                         SeqToSet(before.completedModules) \ {moduleIndex}
                  /\ after.lastAccessedAt = now']_vars

\* a student marked a module complete and nothing else, later than the last
\* access before, while the other student with the same lessons has no
\* module completed, and both stand at 100
C23_Witness ==
    /\ resp.op = "updateCourseProgress"
    /\ resp.status = 200
    /\ resp.req.lessonId = NoLesson
    /\ resp.req.moduleIndex = 1
    /\ resp.req.completed
    /\ Len(course.students) = 2
    /\ \E i, j \in DOMAIN course.students :
          /\ course.students[i].student = resp.user
          /\ i # j
          /\ course.students[i].progress.completedModules = <<1>>
          /\ course.students[j].progress.completedModules = <<>>
          /\ course.students[i].progress.completedLessons = <<"m1">>
          /\ course.students[j].progress.completedLessons = <<"m1">>
          /\ course.students[i].progress.lastAccessedAt = now
          /\ course.students[j].progress.lastAccessedAt < now
          /\ course.students[i].progress.completionPercentage = 100
          /\ course.students[j].progress.completionPercentage = 100

(***************************************************************************)
(* Statistics of the questions.                                            *)
(***************************************************************************)
\* positions of the completed attempts with an answer for the question index
AnsweredBy(attempts, index) ==
    {i \in CompletedPositions(attempts) :
        \E k \in DOMAIN attempts[i].answers :
            attempts[i].answers[k].questionIndex = index}

\* those of them whose answer for the index is marked correct
CorrectlyAnsweredBy(attempts, index) ==
    {i \in AnsweredBy(attempts, index) :
        \E k \in DOMAIN attempts[i].answers :
            /\ attempts[i].answers[k].questionIndex = index
            /\ attempts[i].answers[k].isCorrect}

\* C24: getQuizResults reports for every question index, as totalAttempts,
\* the number of completed attempts with an answer for that index, as
\* correctAnswers the number of those marked correct, at most totalAttempts,
\* and as correctPercentage round(100 * correctAnswers / totalAttempts), 0
\* when no completed attempt answered the question.
C24_QuestionStatistics ==
    (resp.op = "getQuizResults" /\ resp.status = 200)
    => /\ DOMAIN resp.data.questionStats = DOMAIN quiz.questions
       /\ \A n \in DOMAIN quiz.questions :
             LET stat == resp.data.questionStats[n]
                 answered == Cardinality(AnsweredBy(quiz.attempts, n - 1))
                 correct ==
                     Cardinality(CorrectlyAnsweredBy(quiz.attempts, n - 1))
             IN  /\ stat.questionIndex = n - 1
                 /\ stat.totalAttempts = answered
                 /\ stat.correctAnswers = correct
                 /\ stat.correctAnswers <= stat.totalAttempts
                 /\ stat.correctPercentage = ExpectedRate(correct, answered)
                 /\ answered = 0 => stat.correctPercentage = 0

\* results over two completed attempts: both answered the first question,
\* one of them correctly, and only one answered the second
C24_Witness ==
    /\ resp.op = "getQuizResults"
    /\ resp.status = 200
    /\ Cardinality(CompletedPositions(quiz.attempts)) = 2
    /\ resp.data.questionStats[1].totalAttempts = 2
    /\ resp.data.questionStats[1].correctAnswers = 1
    /\ resp.data.questionStats[1].correctPercentage = 50
    /\ resp.data.questionStats[2].totalAttempts = 1

(***************************************************************************)
(* Submissions that are answered with an error.                            *)
(***************************************************************************)
\* C25: a submitQuizAttempt that is not answered with success leaves the
\* attempts of the quiz and the enrollment records of the course, with
\* their progress, as they were before the call.
C25_FailureChangesNothing ==
    [][(resp'.op = "submitQuizAttempt" /\ resp'.status # 200)
       => /\ quiz'.attempts = quiz.attempts
          /\ course'.students = course.students]_vars

(***************************************************************************)
(* Editing of a quiz.                                                      *)
(***************************************************************************)
\* C26: on a quiz with an attempt, completed or not, every updateQuiz and
\* every deleteQuiz is refused and the quiz is left as it was; no step
\* deletes such a quiz or changes its questions, with their points, or its
\* passingScore.
C26_AttemptedQuizIsFrozen ==
    [][(quiz # NoQuiz /\ Len(quiz.attempts) > 0)
       => /\ quiz' # NoQuiz
          /\ quiz'.questions = quiz.questions
          /\ quiz'.passingScore = quiz.passingScore
          /\ resp'.op \in {"updateQuiz", "deleteQuiz"}
                => (resp'.status \notin {200, 201} /\ quiz' = quiz)]_vars

\* the instructor changed the quiz, a student started an attempt on the
\* changed quiz, and an update by the instructor was then refused
C26_Witness ==
    /\ resp.op = "updateQuiz"
    /\ resp.user = Instructor
    /\ resp.status = 400
    /\ quiz # NoQuiz
    /\ quiz.questions = ResultsQuestions
    /\ quiz.passingScore = 67
    /\ resp.req.questions # quiz.questions
    /\ Len(quiz.attempts) = 1
    /\ quiz.attempts[1].completedAt = Undefined
    /\ quiz.attempts[1].maxScore = 2

(***************************************************************************)
(* Enrollment records.                                                     *)
(***************************************************************************)
\* positions of the enrollment records of a student
RecordsOf(c, u) == {i \in DOMAIN c.students : c.students[i].student = u}

\* C27: a course holds at most one enrollment record per student, and an
\* enrollCourse of a student who has a record, pending, approved or
\* rejected, is refused and leaves the course and the student's
\* enrolledCourses as they were.
C27_OneRecordPerStudent ==
    /\ [](\A u \in Students : Cardinality(RecordsOf(course, u)) <= 1)
    /\ [][(/\ resp'.op = "enrollCourse"
            /\ RecordsOf(course, resp'.user) # {})
           => /\ resp'.status \notin {200, 201}
              /\ course' = course
              /\ enrolledCourses' = enrolledCourses]_vars

\* a student whose enrollment was rejected asked to enroll again and was
\* refused, while the other student is enrolled as well
C27_Witness ==
    /\ resp.op = "enrollCourse"
    /\ resp.status = 400
    /\ course.status = "published"
    /\ Len(course.students) = 2
    /\ \E i \in RecordsOf(course, resp.user) :
          course.students[i].enrollmentStatus = "rejected"

\* C28: a step that changes the status of an enrollment record is a
\* successful updateEnrollmentStatus for that student by the instructor of
\* the course or an admin, from pending to the approved or rejected it asked
\* for; no step removes a record; and an updateEnrollmentStatus for a
\* student without a pending record is refused and leaves the course and
\* enrolledCourses as they were.
C28_StatusTransitions ==
    [][/\ \A i \in DOMAIN course.students :
             /\ i \in DOMAIN course'.students
             /\ course'.students[i].student = course.students[i].student
             /\ course'.students[i].enrollmentStatus
                    # course.students[i].enrollmentStatus
                => /\ course.students[i].enrollmentStatus = "pending"
                   /\ course'.students[i].enrollmentStatus
                          \in {"approved", "rejected"}
                   /\ resp'.op = "updateEnrollmentStatus"
                   /\ resp'.status = 200
                   /\ resp'.req.studentId = course.students[i].student
                   /\ resp'.req.status = course'.students[i].enrollmentStatus
                   /\ (resp'.user = course.instructor
                       \/ Role(resp'.user) = "admin")
       /\ (/\ resp'.op = "updateEnrollmentStatus"
           /\ \A i \in RecordsOf(course, resp'.req.studentId) :
                 course.students[i].enrollmentStatus # "pending")
          => /\ resp'.status \notin {200, 201}
             /\ course' = course
             /\ enrolledCourses' = enrolledCourses]_vars

\* the instructor asked to reject a student whose enrollment was approved
\* before, on request, and was refused
C28_Witness ==
    /\ resp.op = "updateEnrollmentStatus"
    /\ resp.user = Instructor
    /\ resp.req.status = "rejected"
    /\ resp.status = 404
    /\ course.enrollmentRequiresApproval
    /\ \E i \in RecordsOf(course, resp.req.studentId) :
          course.students[i].enrollmentStatus = "approved"

(***************************************************************************)
(* Live classes.                                                           *)
(***************************************************************************)
\* C29: no step takes a live class that is canceled or completed to
\* in_progress, and no step adds an attendee record to such a class.
C29_EndedClassStaysEnded ==
    [][liveClass.status \in {"canceled", "completed"}
       => /\ liveClass'.status # "in_progress"
          /\ Len(liveClass'.attendees) <= Len(liveClass.attendees)]_vars

\* positions of the attendee records of a user
AttendeeRecords(lc, u) ==
    {i \in DOMAIN lc.attendees : lc.attendees[i].student = u}

\* C30: a live class holds at most one attendee record per user and none of
\* the instructor of the course; a successful joinLiveClass of a user with
\* a record sets joinedAt of that record to the time of the call and adds
\* no record, and a leaveLiveClass adds none either.
C30_OneAttendeeRecord ==
    /\ [](/\ \A u \in Users \cup {OtherTeacher} :
                Cardinality(AttendeeRecords(liveClass, u)) <= 1
           /\ AttendeeRecords(liveClass, course.instructor) = {})
    /\ [][/\ (/\ resp'.op = "joinLiveClass"
               /\ resp'.status = 200
               /\ ~(resp' = resp /\ liveClass' = liveClass)
               /\ AttendeeRecords(liveClass, resp'.user) # {})
              => /\ Len(liveClass'.attendees) = Len(liveClass.attendees)
                 /\ \A i \in DOMAIN liveClass.attendees :
                       IF i \in AttendeeRecords(liveClass, resp'.user)
                       THEN liveClass'.attendees[i] =
                                [liveClass.attendees[i] EXCEPT !.joinedAt = now']
                       ELSE liveClass'.attendees[i] = liveClass.attendees[i]
          /\ (resp'.op = "leaveLiveClass"
              => Len(liveClass'.attendees) = Len(liveClass.attendees))]_vars

\* a student who had left the class joined again, later, next to the admin:
\* the one record of the student holds the new joinedAt
C30_Witness ==
    /\ resp.op = "joinLiveClass"
    /\ resp.status = 200
    /\ resp.user = "s1"
    /\ Len(liveClass.attendees) = 2
    /\ \E i \in AttendeeRecords(liveClass, "s1") :
          /\ liveClass.attendees[i].leftAt # Undefined
          /\ liveClass.attendees[i].joinedAt = now
          /\ liveClass.attendees[i].joinedAt > liveClass.attendees[i].leftAt
    /\ AttendeeRecords(liveClass, Admin) # {}

====
